---- MODULE Spec2Model ----
(***************************************************************************)
(* A model of mflags: the FlagSet parser (mflags.go) and the Dispatcher    *)
(* with its interspersed-flag command resolver (dispatcher.go).            *)
(*                                                                         *)
(* A Go string is a sequence of one-character strings, so that prefixes,   *)
(* splitting on "=", short-flag clusters and the conversions of values are *)
(* computed character by character as the code computes them.  Go slice    *)
(* indices are 0-based; the sequences here are 1-based, so the Go index i  *)
(* is the position i+1.                                                    *)
(***************************************************************************)
EXTENDS Integers, Sequences, FiniteSets, TLC

VARIABLES
    fsets,      \* FlagSet objects, by name
    commands,   \* Dispatcher.commands: normalized path -> command
    pc,         \* position of the calling program: "setup", then "done"
    arguments,  \* the argument vector of the last Parse / Execute call
    err,        \* the error that call returned
    pre,        \* fsets as they were when that call started
    ran,        \* the calls of Command.Run made by that call: <<[cmd, args]>>
    out,        \* what that call rendered: "", "help" or "cmdhelp"
    outPath,    \* the entry whose help was rendered
    resolved,   \* what the resolver returned to that call: <<>> or <<result>>
    given,      \* the values a round-trip vector was built from
    server      \* the MCPServer of the program

vars == <<fsets, commands, pc, arguments, err, pre, ran, out, outPath, resolved, given, server>>

-----------------------------------------------------------------------------
(* Strings                                                                 *)

HasPrefix(s, p) == Len(p) <= Len(s) /\ SubSeq(s, 1, Len(p)) = p

TrimPrefix(s, p) == IF HasPrefix(s, p) THEN SubSeq(s, Len(p) + 1, Len(s)) ELSE s

\* position of the first occurrence of the character c in s, 0 when absent
IndexByte(s, c) ==
    IF \E i \in 1..Len(s) : s[i] = c
    THEN CHOOSE i \in 1..Len(s) : s[i] = c /\ \A j \in 1..(i - 1) : s[j] # c
    ELSE 0

\* strings.Split(s, sep) for a one-character separator
RECURSIVE Split(_, _)
Split(s, c) ==
    LET k == IndexByte(s, c)
    IN  IF k = 0 THEN <<s>>
        ELSE <<SubSeq(s, 1, k - 1)>> \o Split(SubSeq(s, k + 1, Len(s)), c)

\* strings.Fields: the maximal runs of non-space characters
RECURSIVE Fields(_)
Fields(s) ==
    IF s = <<>> THEN <<>>
    ELSE IF s[1] = " " THEN Fields(Tail(s))
    ELSE LET k == IndexByte(s, " ")
         IN  IF k = 0 THEN <<s>>
             ELSE <<SubSeq(s, 1, k - 1)>> \o Fields(SubSeq(s, k, Len(s)))

\* strings.Join(parts, sep)
RECURSIVE Join(_, _)
Join(parts, sep) ==
    IF parts = <<>> THEN <<>>
    ELSE IF Len(parts) = 1 THEN parts[1]
    ELSE parts[1] \o sep \o Join(Tail(parts), sep)

Digits == <<"0", "1", "2", "3", "4", "5", "6", "7", "8", "9">>

IsDigit(c) == \E d \in 1..10 : Digits[d] = c

DigitVal(c) == (CHOOSE d \in 1..10 : Digits[d] = c) - 1

\* the value of a non-empty string of decimal digits
RECURSIVE DecVal(_)
DecVal(s) ==
    IF s = <<>> THEN 0
    ELSE 10 * DecVal(SubSeq(s, 1, Len(s) - 1)) + DigitVal(s[Len(s)])

AllDigits(s) == s # <<>> /\ \A i \in 1..Len(s) : IsDigit(s[i])

RECURSIVE UDec(_)
UDec(n) == IF n < 10 THEN <<Digits[n + 1]>> ELSE UDec(n \div 10) \o <<Digits[(n % 10) + 1]>>

-----------------------------------------------------------------------------
(* Values                                                                  *)

\* A bound value: the variable a flag or a positional field points to.
BoolV(b) == [kind |-> "bool", b |-> b, s |-> <<>>, n |-> 0, a |-> <<>>]
StrV(s) == [kind |-> "string", b |-> FALSE, s |-> s, n |-> 0, a |-> <<>>]
IntV(n) == [kind |-> "int", b |-> FALSE, s |-> <<>>, n |-> n, a |-> <<>>]
DurV(n) == [kind |-> "duration", b |-> FALSE, s |-> <<>>, n |-> n, a |-> <<>>]
ArrV(a) == [kind |-> "array", b |-> FALSE, s |-> <<>>, n |-> 0, a |-> a]

Conv(ok, v) == [ok |-> ok, v |-> v]

TrueStrings ==
    { <<"1">>, <<"t">>, <<"T">>, <<"T", "R", "U", "E">>, <<"t", "r", "u", "e">>,
      <<"T", "r", "u", "e">> }

FalseStrings ==
    { <<"0">>, <<"f">>, <<"F">>, <<"F", "A", "L", "S", "E">>,
      <<"f", "a", "l", "s", "e">>, <<"F", "a", "l", "s", "e">> }

\* strconv.ParseBool
ParseBool(s) ==
    IF s \in TrueStrings THEN Conv(TRUE, BoolV(TRUE))
    ELSE IF s \in FalseStrings THEN Conv(TRUE, BoolV(FALSE))
    ELSE Conv(FALSE, BoolV(FALSE))

Negative(s) == s # <<>> /\ s[1] = "-"

\* s without a leading sign
Unsigned(s) == IF s # <<>> /\ s[1] \in {"+", "-"} THEN Tail(s) ELSE s

Signed(neg, n) == IF neg THEN 0 - n ELSE n

\* strconv.Atoi: an optional sign, then decimal digits
atoiDigits(neg, body) ==
    IF ~AllDigits(body) THEN Conv(FALSE, IntV(0))
    ELSE Conv(TRUE, IntV(Signed(neg, DecVal(body))))

Atoi(s) == atoiDigits(Negative(s), Unsigned(s))

\* the units of time.ParseDuration that are whole seconds, in seconds
UnitSeconds(u) ==
    IF u = <<"s">> THEN 1 ELSE IF u = <<"m">> THEN 60 ELSE IF u = <<"h">> THEN 3600 ELSE 0

\* the length of the longest prefix of s made of digits (dig) or of non-digits
RECURSIVE Span(_, _)
Span(s, dig) ==
    IF s = <<>> \/ IsDigit(s[1]) # dig THEN 0 ELSE 1 + Span(Tail(s), dig)

durAdd(n, secs, more) ==
    IF secs = 0 \/ ~more.ok THEN Conv(FALSE, 0) ELSE Conv(TRUE, n * secs + more.v)

\* the groups "<digits><unit>" of a duration; ok is FALSE on a syntax error
RECURSIVE DurGroups(_)
durUnit(s, nd, nu) ==
    IF nd = 0 \/ nu = 0 THEN Conv(FALSE, 0)
    ELSE durAdd(DecVal(SubSeq(s, 1, nd)), UnitSeconds(SubSeq(s, nd + 1, nd + nu)),
                DurGroups(SubSeq(s, nd + nu + 1, Len(s))))

durDigits(s, nd) == durUnit(s, nd, Span(SubSeq(s, nd + 1, Len(s)), FALSE))

DurGroups(s) == IF s = <<>> THEN Conv(TRUE, 0) ELSE durDigits(s, Span(s, TRUE))

durSigned(neg, body, g) ==
    IF body = <<"0">> THEN Conv(TRUE, DurV(0))
    ELSE IF body = <<>> \/ ~g.ok THEN Conv(FALSE, DurV(0))
    ELSE Conv(TRUE, DurV(Signed(neg, g.v)))

\* time.ParseDuration, at the resolution of one second: [-+]?(<digits><unit>)+
\* or "0".  Fractions and the sub-second units are not among the modelled inputs.
ParseDuration(s) == durSigned(Negative(s), Unsigned(s), DurGroups(Unsigned(s)))

\* Value.Set of boolValue, stringValue, intValue, durationValue, stringArrayValue
ValueSet(kind, s) ==
    IF kind = "bool" THEN ParseBool(s)
    ELSE IF kind = "string" THEN Conv(TRUE, StrV(s))
    ELSE IF kind = "int" THEN Atoi(s)
    ELSE IF kind = "duration" THEN ParseDuration(s)
    ELSE Conv(TRUE, ArrV(Split(s, ",")))

\* strconv.FormatBool
FormatBool(b) == IF b THEN <<"t", "r", "u", "e">> ELSE <<"f", "a", "l", "s", "e">>

\* strconv.Itoa
Itoa(n) == IF n < 0 THEN <<"-">> \o UDec(0 - n) ELSE UDec(n)

\* time.Duration.String for whole seconds: "0s", "5s", "1m0s", "1h0m5s"
DurationString(d) ==
    LET u == IF d < 0 THEN 0 - d ELSE d
        sec == UDec(u % 60) \o <<"s">>
        min == IF u \div 60 > 0 THEN UDec((u \div 60) % 60) \o <<"m">> ELSE <<>>
        hr == IF u \div 3600 > 0 THEN UDec(u \div 3600) \o <<"h">> ELSE <<>>
    IN  (IF d < 0 THEN <<"-">> ELSE <<>>) \o hr \o min \o sec

\* Value.String
ValueString(v) ==
    IF v.kind = "bool" THEN FormatBool(v.b)
    ELSE IF v.kind = "string" THEN v.s
    ELSE IF v.kind = "int" THEN Itoa(v.n)
    ELSE IF v.kind = "duration" THEN DurationString(v.n)
    ELSE Join(v.a, <<",">>)

\* Value.IsBool
IsBool(v) == v.kind = "bool"

-----------------------------------------------------------------------------
(* Flags and FlagSets                                                      *)

\* The Flag objects the calling programs create: Flag.Name, Flag.Short ("" is
\* the rune 0, no short form) and the kind and declared default of the bound
\* variable.
FlagDecl(name, short, kind, def) == [Name |-> name, Short |-> short, kind |-> kind, def |-> def]

FlagObjects ==
    [ verbose |-> FlagDecl(<<"v", "e", "r", "b", "o", "s", "e">>, "v", "bool", BoolV(FALSE)),
      list    |-> FlagDecl(<<"l", "i", "s", "t">>, "l", "bool", BoolV(FALSE)),
      all     |-> FlagDecl(<<"a", "l", "l">>, "a", "bool", BoolV(FALSE)),
      name    |-> FlagDecl(<<"n", "a", "m", "e">>, "n", "string", StrV(<<"d">>)),
      count   |-> FlagDecl(<<"c", "o", "u", "n", "t">>, "c", "int", IntV(1)),
      timeout |-> FlagDecl(<<"t", "i", "m", "e", "o", "u", "t">>, "t", "duration", DurV(30)),
      config  |-> FlagDecl(<<"c", "o", "n", "f", "i", "g">>, "C", "string", StrV(<<>>)),
      xonly   |-> FlagDecl(<<>>, "x", "bool", BoolV(FALSE)),
      chatty  |-> FlagDecl(<<"v", "e", "r", "b", "o", "s", "e">>, "V", "string", StrV(<<>>)),
      vee     |-> FlagDecl(<<"v", "e", "e">>, "v", "bool", BoolV(FALSE)) ]

\* The positional fields the calling programs declare: name, kind and default.
PosDecl(name, kind, def) == [Name |-> name, kind |-> kind, val |-> def]

\* an error value: nil, or one of the parser's and the dispatcher's errors;
\* kind is "nil" or the error's kind, tok the text it carries, pos the position
\* it reports (-1: none), ctx the message Execute wraps it in
NoErr == [kind |-> "nil", tok |-> <<>>, pos |-> 0 - 1, ctx |-> ""]
FlagErr(kind, tok) == [kind |-> kind, tok |-> tok, pos |-> 0 - 1, ctx |-> ""]
PosErr(p) == [kind |-> "Positional", tok |-> <<>>, pos |-> p, ctx |-> ""]

\* a nil or bound *[]string (restField, unknownField)
NilSlice == [set |-> FALSE, val |-> <<>>]
BoundSlice(v) == [set |-> TRUE, val |-> v]

\* NewFlagSet
NewFlagSet ==
    [ flags             |-> <<>>,   \* map[string]*Flag: long name -> flag object
      shortMap          |-> <<>>,   \* map[rune]*Flag
      vals              |-> <<>>,   \* the variables the registered flags point to
      args              |-> <<>>,
      parsed            |-> FALSE,
      restField         |-> NilSlice,
      posFields         |-> <<>>,   \* map[int]*PositionalField
      allowUnknownFlags |-> FALSE,
      unknownFlags      |-> <<>>,
      unknownField      |-> NilSlice ]

\* m[k] = v on a Go map
MapPut(m, k, v) == [x \in DOMAIN m \cup {k} |-> IF x = k THEN v ELSE m[x]]

\* FlagSet.Var followed by the store of the default (BoolVar, StringVar, ...)
\* a Var that keeps the flag a name or a rune already has
VarKeepsFirst(f, id) ==
    [f EXCEPT !.flags = IF FlagObjects[id].Name # <<>> /\ FlagObjects[id].Name \notin DOMAIN @
                        THEN MapPut(@, FlagObjects[id].Name, id) ELSE @,
              !.shortMap = IF FlagObjects[id].Short # "" /\ FlagObjects[id].Short \notin DOMAIN @
                           THEN MapPut(@, FlagObjects[id].Short, id) ELSE @,
              !.vals = MapPut(@, id, FlagObjects[id].def)]

NilFlag == "nil"

\* FlagSet.Lookup
Lookup(f, name) == IF name \in DOMAIN f.flags THEN f.flags[name] ELSE NilFlag

Var(f, id) ==
    [f EXCEPT !.flags = IF FlagObjects[id].Name # <<>> THEN MapPut(@, FlagObjects[id].Name, id) ELSE @,
              !.shortMap = IF FlagObjects[id].Short # "" THEN MapPut(@, FlagObjects[id].Short, id) ELSE @,
              !.vals = MapPut(@, id, FlagObjects[id].def)]

\* StringPosVar, IntPosVar, BoolPosVar, DurationPosVar
PosVar(f, position, d) == [f EXCEPT !.posFields = MapPut(@, position, d)]

\* FlagSet.Rest
Rest(f) == [f EXCEPT !.restField = BoundSlice(<<>>)]

\* FlagSet.AllowUnknownFlags
AllowUnknownFlags(f, allow) == [f EXCEPT !.allowUnknownFlags = allow]

\* FromStruct on a field tagged unknown:"true"
UnknownVar(f) == [f EXCEPT !.unknownField = BoundSlice(<<>>), !.allowUnknownFlags = TRUE]

\* flag.Value.IsBool() of a registered flag
FlagIsBool(id) == FlagObjects[id].kind = "bool"

\* what parseLongFlag and parseShortFlags return: the FlagSet, *index, the error
Step(f, index, e) == [f |-> f, index |-> index, err |-> e]

\* a Set whose failure is reported as a missing value
valueStoredAsMissing(f, id, c, tok, index) ==
    IF c.ok THEN Step([f EXCEPT !.vals[id] = c.v], index, NoErr)
    ELSE Step(f, index, FlagErr("MissingValue", tok))

\* the end of flag.Value.Set: the bound variable changes only when the
\* conversion c succeeded, and a failure is reported as ErrInvalidValue
valueStored(f, id, c, tok, index) ==
    IF c.ok THEN Step([f EXCEPT !.vals[id] = c.v], index, NoErr)
    ELSE Step(f, index, FlagErr("InvalidValue", tok))

\* flag.Value.Set(value) on the registered flag id, *index being left at index
FlagSetValue(f, id, value, tok, index) ==
    valueStored(f, id, ValueSet(FlagObjects[id].kind, value), tok, index)

\* a capture of the unknown token alone, the scan going on after it
unknownFlagOne(f, tok, args, index) ==
    IF f.allowUnknownFlags
    THEN Step([f EXCEPT !.unknownFlags = Append(@, args[index])], index, NoErr)
    ELSE Step(f, index, FlagErr("UnknownFlag", tok))

\* the branch of parseLongFlag and parseShortFlags for a flag that is not
\* registered: capture the rest of the arguments, or ErrUnknownFlag
unknownFlag(f, tok, args, index) ==
    IF f.allowUnknownFlags
    THEN Step([f EXCEPT !.unknownFlags = @ \o SubSeq(args, index, Len(args))], Len(args), NoErr)
    ELSE Step(f, index, FlagErr("UnknownFlag", tok))

TrueText == <<"t", "r", "u", "e">>

\* a parseLongFlag that does not take a token that looks like a flag for a value
longFoundShy(f, id, tok, hasValue, attached, args, index) ==
    IF ~FlagIsBool(id) /\ ~hasValue /\ (index + 1 > Len(args) \/ HasPrefix(args[index + 1], <<"-">>))
    THEN Step(f, index, FlagErr("MissingValue", tok))
    ELSE FlagSetValue(f, id,
                      IF hasValue THEN attached
                      ELSE IF FlagIsBool(id) THEN TrueText
                      ELSE args[index + 1],
                      tok,
                      IF ~FlagIsBool(id) /\ ~hasValue THEN index + 1 ELSE index)

\* parseLongFlag once the flag is found
longFound(f, id, tok, hasValue, attached, args, index) ==
    IF ~FlagIsBool(id) /\ ~hasValue /\ index + 1 > Len(args)
    THEN Step(f, index, FlagErr("MissingValue", tok))
    ELSE FlagSetValue(f, id,
                      IF hasValue THEN attached
                      ELSE IF FlagIsBool(id) THEN TrueText
                      ELSE args[index + 1],
                      tok,
                      IF ~FlagIsBool(id) /\ ~hasValue THEN index + 1 ELSE index)

\* parseLongFlag after the split at the first "="
longLookup(f, nm, hasValue, attached, args, index) ==
    IF nm \notin DOMAIN f.flags
    THEN unknownFlag(f, <<"-", "-">> \o nm, args, index)
    ELSE longFound(f, f.flags[nm], <<"-", "-">> \o nm, hasValue, attached, args, index)

longSplit(f, name, eq, args, index) ==
    IF eq > 0
    THEN longLookup(f, SubSeq(name, 1, eq - 1), TRUE, SubSeq(name, eq + 1, Len(name)), args, index)
    ELSE longLookup(f, name, FALSE, <<>>, args, index)

\* a parseLongFlag that splits the token at its last "="
parseLongFlagLastEq(f, name, args, index) ==
    longSplit(f, name,
              CHOOSE k \in 0..Len(name) :
                  /\ k > 0 => name[k] = "="
                  /\ \A j \in (k + 1)..Len(name) : name[j] # "=",
              args, index)

\* FlagSet.parseLongFlag; name is the token without its "--"
parseLongFlag(f, name, args, index) == longSplit(f, name, IndexByte(name, "="), args, index)

RECURSIVE shortLoop(_, _, _, _, _)

\* a cluster loop that goes on after a flag with a value
shortNextNoBreak(r, bool, runes, args, i) ==
    IF r.err # NoErr THEN r ELSE shortLoop(r.f, runes, args, r.index, i + 1)

\* after the Set of a short flag: a boolean goes on with the next rune, a flag
\* with a value ends the cluster
shortNext(r, bool, runes, args, i) ==
    IF r.err # NoErr \/ ~bool THEN r ELSE shortLoop(r.f, runes, args, r.index, i + 1)

\* a parseShortFlags without the test of the rune after a flag with a value
shortFoundNoCollision(f, id, runes, args, index, i) ==
    IF ~FlagIsBool(id) /\ i = Len(runes) /\ index + 1 > Len(args)
    THEN Step(f, index, FlagErr("MissingValue", <<"-", runes[i]>>))
    ELSE shortNext(FlagSetValue(f, id,
                                IF FlagIsBool(id) THEN TrueText
                                ELSE IF i < Len(runes) THEN SubSeq(runes, i + 1, Len(runes))
                                ELSE args[index + 1],
                                <<"-", runes[i]>>,
                                IF FlagIsBool(id) \/ i < Len(runes) THEN index ELSE index + 1),
                   FlagIsBool(id), runes, args, i)

\* parseShortFlags for the registered flag id found at rune i
shortFound(f, id, runes, args, index, i) ==
    IF /\ ~FlagIsBool(id)
       /\ IF i < Len(runes)
          THEN runes[i + 1] \in DOMAIN f.shortMap /\ ~FlagIsBool(f.shortMap[runes[i + 1]])
          ELSE index + 1 > Len(args)
    THEN Step(f, index, FlagErr("MissingValue", <<"-", runes[i]>>))
    ELSE shortNext(FlagSetValue(f, id,
                                IF FlagIsBool(id) THEN TrueText
                                ELSE IF i < Len(runes) THEN SubSeq(runes, i + 1, Len(runes))
                                ELSE args[index + 1],
                                <<"-", runes[i]>>,
                                IF FlagIsBool(id) \/ i < Len(runes) THEN index ELSE index + 1),
                   FlagIsBool(id), runes, args, i)

\* the loop of FlagSet.parseShortFlags from the rune at position i
shortLoop(f, runes, args, index, i) ==
    IF i > Len(runes) THEN Step(f, index, NoErr)
    ELSE IF runes[i] \notin DOMAIN f.shortMap
    THEN unknownFlag(f, <<"-", runes[i]>>, args, index)
    ELSE shortFound(f, f.shortMap[runes[i]], runes, args, index, i)

\* FlagSet.parseShortFlags; shortFlags is the token without its "-"
parseShortFlags(f, shortFlags, args, index) == shortLoop(f, shortFlags, args, index, 1)

DoubleHyphen == <<"-", "-">>

\* how the scan of Parse ended: the FlagSet, the error, and the way out of the loop
Scanned(f, e, stop) == [f |-> f, err |-> e, stop |-> stop]

RECURSIVE scanFrom(_, _, _)

\* a scan that goes on after a failing flag token and returns the first error
scanNextLate(r, args) ==
    [scanFrom(r.f, args, r.index + 1) EXCEPT !.err = IF r.err # NoErr THEN r.err ELSE @,
                                             !.stop = IF r.err # NoErr THEN "error" ELSE @]

\* the scan after a flag token: return its error, or go on after *index
scanNext(r, args) ==
    IF r.err # NoErr THEN Scanned(r.f, r.err, "error") ELSE scanFrom(r.f, args, r.index + 1)

\* the two flag branches of the scan
scanFlag(f, arg, args, i) ==
    IF HasPrefix(arg, DoubleHyphen)
    THEN parseLongFlag(f, SubSeq(arg, 3, Len(arg)), args, i)
    ELSE parseShortFlags(f, Tail(arg), args, i)

\* a scan that keeps the "--" among the literals
scanFromKeepsHyphen(f, args, i) ==
    IF i > Len(args) THEN Scanned(f, NoErr, "end")
    ELSE IF args[i] = DoubleHyphen
    THEN Scanned([f EXCEPT !.args = @ \o SubSeq(args, i, Len(args))], NoErr, "terminator")
    ELSE IF HasPrefix(args[i], <<"-">>) /\ Len(args[i]) > 1
    THEN scanNext(scanFlag(f, args[i], args, i), args)
    ELSE scanFrom([f EXCEPT !.args = Append(@, args[i])], args, i + 1)

\* the scan loop of FlagSet.Parse from position i
scanFrom(f, args, i) ==
    IF i > Len(args) THEN Scanned(f, NoErr, "end")
    ELSE IF args[i] = DoubleHyphen
    THEN Scanned([f EXCEPT !.args = @ \o SubSeq(args, i + 1, Len(args))], NoErr, "terminator")
    ELSE IF HasPrefix(args[i], <<"-">>) /\ Len(args[i]) > 1
    THEN scanNext(scanFlag(f, args[i], args, i), args)
    ELSE scanFrom([f EXCEPT !.args = Append(@, args[i])], args, i + 1)

\* a head of Parse that leaves the lists of the previous call in place
ParseResetKeepsLists(f) == [f EXCEPT !.parsed = TRUE]

\* the head of FlagSet.Parse: parsed set, args and unknownFlags emptied
ParseReset(f) == [f EXCEPT !.parsed = TRUE, !.args = <<>>, !.unknownFlags = <<>>]

\* what FlagSet.Parse returns: the FlagSet it leaves and the error
Parsed(f, e) == [f |-> f, err |-> e]

RECURSIVE bindPositional(_, _)

\* a positional failure reported with the position counted from one
fieldStoredFromOne(f, pos, c, order) ==
    IF ~c.ok THEN Parsed(f, PosErr(pos + 1))
    ELSE bindPositional([f EXCEPT !.posFields[pos].val = c.v], order)

\* the end of setFieldValue on the field at pos, c being the conversion
fieldStored(f, pos, c, order) ==
    IF ~c.ok THEN Parsed(f, PosErr(pos))
    ELSE bindPositional([f EXCEPT !.posFields[pos].val = c.v], order)

\* setFieldValue on the positional field at pos: the conversion by the field's kind
setFieldValue(f, pos, value, order) ==
    fieldStored(f, pos, ValueSet(f.posFields[pos].kind, value), order)

\* a positional loop that gives the k-th declared field the k-th literal
bindPositionalDense(f, order) ==
    IF order = <<>> THEN Parsed(f, NoErr)
    ELSE IF Cardinality({q \in DOMAIN f.posFields : q < Head(order)}) >= Len(f.args)
    THEN bindPositional(f, Tail(order))
    ELSE setFieldValue(f, Head(order),
                       f.args[Cardinality({q \in DOMAIN f.posFields : q < Head(order)}) + 1],
                       Tail(order))

\* the loop over f.posFields of FlagSet.Parse, in the order the map is ranged
bindPositional(f, order) ==
    IF order = <<>> THEN Parsed(f, NoErr)
    ELSE IF Head(order) >= Len(f.args) THEN bindPositional(f, Tail(order))
    ELSE setFieldValue(f, Head(order), f.args[Head(order) + 1], Tail(order))

\* an end of Parse that gives the rest field only the literals after those of
\* the positional fields
bindSlicesLeftover(p) ==
    IF p.err # NoErr THEN p
    ELSE Parsed([p.f EXCEPT !.restField =
                                IF @.set
                                THEN BoundSlice(SubSeq(p.f.args, Cardinality(DOMAIN p.f.posFields) + 1,
                                                       Len(p.f.args)))
                                ELSE @,
                            !.unknownField = IF @.set THEN BoundSlice(p.f.unknownFlags) ELSE @],
                NoErr)

\* the stores into restField and unknownField that end FlagSet.Parse
bindSlices(p) ==
    IF p.err # NoErr THEN p
    ELSE Parsed([p.f EXCEPT !.restField = IF @.set THEN BoundSlice(p.f.args) ELSE @,
                            !.unknownField = IF @.set THEN BoundSlice(p.f.unknownFlags) ELSE @],
                NoErr)

\* FlagSet.Parse after its scan
parseBind(s, order) ==
    IF s.err # NoErr THEN Parsed(s.f, s.err) ELSE bindSlices(bindPositional(s.f, order))

\* the orders in which ranging over a Go map with the key set S may visit it
Orders(S) == {o \in [1..Cardinality(S) -> S] : \A i, j \in DOMAIN o : i # j => o[i] # o[j]}

\* FlagSet.Parse, the map f.posFields being ranged in the given order
Parse(f, args, order) == parseBind(scanFrom(ParseReset(f), args, 1), order)

\* FlagSet.Args, FlagSet.UnknownFlags
Args(f) == f.args
UnknownFlags(f) == f.unknownFlags

-----------------------------------------------------------------------------
(* Dispatcher                                                              *)

Space == <<" ">>

\* a lookup key that is the path as it is spelled
normalizeNothing(path) == path

\* normalizeCommandPath
normalizeCommandPath(path) == Join(Fields(path), Space)

\* a CommandEntry: the normalized path and the command
CommandEntry(path, cmd) == [Path |-> path, Command |-> cmd]

dispatchAt(cmds, normalizedPath, cmd) ==
    MapPut(cmds, normalizedPath, CommandEntry(normalizedPath, cmd))

\* Dispatcher.Dispatch
Dispatch(cmds, path, cmd) == dispatchAt(cmds, normalizeCommandPath(path), cmd)

\* a Remove that deletes the entry stored under the path as it is spelled
RemoveSpelled(cmds, path) ==
    [p \in DOMAIN cmds \ {path} |-> cmds[p]]

\* Dispatcher.Remove
Remove(cmds, path) ==
    [p \in DOMAIN cmds \ {normalizeCommandPath(path)} |-> cmds[p]]

\* the nil Command and the nil *CommandEntry
NilCommand == "nil"
NilEntry == [Path |-> <<>>, Command |-> NilCommand]

\* Dispatcher.GetCommand
GetCommand(cmds, path) ==
    IF normalizeCommandPath(path) \in DOMAIN cmds THEN cmds[normalizeCommandPath(path)].Command
    ELSE NilCommand

\* Dispatcher.GetCommandEntry
GetCommandEntry(cmds, path) ==
    IF normalizeCommandPath(path) \in DOMAIN cmds THEN cmds[normalizeCommandPath(path)] ELSE NilEntry

\* Dispatcher.GetCommands: a copy of the registry, path to Command
GetCommands(cmds) == [k \in DOMAIN cmds |-> cmds[k].Command]

\* Dispatcher.HasCommand
HasCommand(cmds, path) == normalizeCommandPath(path) \in DOMAIN cmds

\* isHelpFlag
isHelpFlag(flag) == flag = <<"-", "h">> \/ flag = <<"-", "-", "h", "e", "l", "p">>

HelpWord == <<"h", "e", "l", "p">>

\* a help test that forgets the word "help"
hasHelpFlagOnly(args) == \E i \in 1..Len(args) : isHelpFlag(args[i])

\* the help test at the head of Dispatcher.Execute
hasHelpToken(args) == \E i \in 1..Len(args) : isHelpFlag(args[i]) \/ args[i] = HelpWord

\* a flagInfo of findCommandWithInterspersedFlags
flagInfo(flag, value, hasValue, index) ==
    [flag |-> flag, value |-> value, hasValue |-> hasValue, index |-> index]

\* commandParts, commandPartIndices and skippedItems before the scan
NoParts == [commandParts |-> <<>>, commandPartIndices |-> <<>>, skippedItems |-> <<>>]

\* does some registered path begin with testPath
isPathPrefix(cmds, testPath) == \E cmdPath \in DOMAIN cmds : HasPrefix(cmdPath, testPath)

\* a look-ahead that takes the next token for a command word only when the
\* command parts with it are a registered path
nextIsCommandExact(cmds, args, i, commandParts) ==
    /\ i + 1 <= Len(args)
    /\ ~HasPrefix(args[i + 1], <<"-">>)
    /\ normalizeCommandPath(Join(Append(commandParts, args[i + 1]), Space)) \in DOMAIN cmds

\* the look-ahead of the classification scan: is the token after the flag at i
\* not flag-looking and, added to the command parts so far, the beginning of a
\* registered path
nextIsCommand(cmds, args, i, commandParts) ==
    /\ i + 1 <= Len(args)
    /\ ~HasPrefix(args[i + 1], <<"-">>)
    /\ isPathPrefix(cmds, normalizeCommandPath(Join(Append(commandParts, args[i + 1]), Space)))

\* the first loop of findCommandWithInterspersedFlags, from position i
RECURSIVE classify(_, _, _, _)
classify(cmds, args, i, acc) ==
    IF i > Len(args) THEN acc
    ELSE IF ~HasPrefix(args[i], <<"-">>)
    THEN classify(cmds, args, i + 1,
                  [acc EXCEPT !.commandParts = Append(@, args[i]),
                              !.commandPartIndices = Append(@, i)])
    ELSE IF nextIsCommand(cmds, args, i, acc.commandParts)
    THEN classify(cmds, args, i + 1,
                  [acc EXCEPT !.skippedItems = Append(@, flagInfo(args[i], <<>>, FALSE, i))])
    ELSE IF i + 1 <= Len(args) /\ ~HasPrefix(args[i + 1], <<"-">>)
    THEN classify(cmds, args, i + 2,
                  [acc EXCEPT !.skippedItems = Append(@, flagInfo(args[i], args[i + 1], TRUE, i))])
    ELSE classify(cmds, args, i + 1,
                  [acc EXCEPT !.skippedItems = Append(@, flagInfo(args[i], <<>>, FALSE, i))])

\* a VisitAll that visits nothing once the FlagSet has been parsed
VisitAllUnparsed(f) == IF f.parsed THEN {} ELSE {f.flags[n] : n \in DOMAIN f.flags}

\* the flags FlagSet.VisitAll visits: those reachable through f.flags
VisitAll(f) == {f.flags[n] : n \in DOMAIN f.flags}

\* the name a skipped flag token is looked up by
flagNameOf(flag) == TrimPrefix(TrimPrefix(flag, <<"-", "-">>), <<"-">>)

\* does the visited flag id answer to the skipped token's name
flagMatches(id, flagName) ==
    \/ Len(flagName) = 1 /\ FlagObjects[id].Short = flagName[1]
    \/ FlagObjects[id].Name = flagName

\* the visited flags that answer to the name
flagHits(f, flagName) == {id \in VisitAll(f) : flagMatches(id, flagName)}

\* the validation of one skipped item, hits being the flags found for it
hitsValid(fi, hits) ==
    /\ hits # {} \/ isHelpFlag(fi.flag)
    /\ ~(fi.hasValue /\ \E id \in hits : FlagIsBool(id))

\* the validation of one skipped item against the matched command's FlagSet
itemValid(f, fi) == hitsValid(fi, flagHits(f, flagNameOf(fi.flag)))

\* the validation loop: only the items at or before the last command word
prefixValid(f, skippedItems, lastCommandIndex) ==
    \A k \in 1..Len(skippedItems) :
        skippedItems[k].index <= lastCommandIndex => itemValid(f, skippedItems[k])

\* the flag and value tokens of the skipped items at or before the boundary
RECURSIVE skippedArgs(_, _)
skippedArgs(skippedItems, lastCommandIndex) ==
    IF skippedItems = <<>> THEN <<>>
    ELSE (IF Head(skippedItems).index > lastCommandIndex THEN <<>>
          ELSE IF Head(skippedItems).hasValue
          THEN <<Head(skippedItems).flag, Head(skippedItems).value>>
          ELSE <<Head(skippedItems).flag>>)
         \o skippedArgs(Tail(skippedItems), lastCommandIndex)

\* an argument list with the tokens after the command before the skipped flags
fullArgsTailFirst(args, skippedItems, lastCommandIndex) ==
    SubSeq(args, lastCommandIndex + 1, Len(args)) \o skippedArgs(skippedItems, lastCommandIndex)

\* the argument list built for a matched prefix
fullArgs(args, skippedItems, lastCommandIndex) ==
    skippedArgs(skippedItems, lastCommandIndex) \o SubSeq(args, lastCommandIndex + 1, Len(args))

\* what findCommandWithInterspersedFlags returns: the entry's path, the arguments
Found(path, args) == [found |-> TRUE, path |-> path, args |-> args]
NotFound(args) == [found |-> FALSE, path |-> <<>>, args |-> args]

RECURSIVE matchFrom(_, _, _, _, _)

\* one round of the second loop: the prefix of j command parts, joined to testPath
matchAt(cmds, fs, args, sc, j, testPath) ==
    IF /\ testPath \in DOMAIN cmds
       /\ prefixValid(fs[cmds[testPath].Command], sc.skippedItems, sc.commandPartIndices[j])
    THEN Found(testPath, fullArgs(args, sc.skippedItems, sc.commandPartIndices[j]))
    ELSE matchFrom(cmds, fs, args, sc, j - 1)

\* the second loop of findCommandWithInterspersedFlags, from the prefix length j down
matchFrom(cmds, fs, args, sc, j) ==
    IF j <= 0 THEN NotFound(args)
    ELSE matchAt(cmds, fs, args, sc, j,
                 normalizeCommandPath(Join(SubSeq(sc.commandParts, 1, j), Space)))

\* a resolver that tries only the first command word
firstPrefixShortest(sc) == IF Len(sc.commandParts) > 0 THEN 1 ELSE 0

\* the prefixes are tried from the longest
firstPrefix(sc) == Len(sc.commandParts)

matchAll(cmds, fs, args, sc) == matchFrom(cmds, fs, args, sc, firstPrefix(sc))

\* Dispatcher.findCommandWithInterspersedFlags
findCommandWithInterspersedFlags(cmds, fs, args) ==
    matchAll(cmds, fs, args, classify(cmds, args, 1, NoParts))

\* the flags that make Dispatcher.HandleCompletion take the call
CompletionFlags ==
    { <<"-", "-", "c", "o", "m", "p", "l", "e", "t", "e", "-", "b", "a", "s", "h">>,
      <<"-", "-", "c", "o", "m", "p", "l", "e", "t", "e", "-", "z", "s", "h">>,
      <<"-", "-", "g", "e", "n", "e", "r", "a", "t", "e", "-", "b", "a", "s", "h", "-",
        "c", "o", "m", "p", "l", "e", "t", "i", "o", "n">>,
      <<"-", "-", "g", "e", "n", "e", "r", "a", "t", "e", "-", "z", "s", "h", "-",
        "c", "o", "m", "p", "l", "e", "t", "i", "o", "n">> }

\* Dispatcher.HandleCompletion, the environment variable COMP_LINE being unset
HandleCompletion(args) == Len(args) > 0 /\ args[1] \in CompletionFlags

\* the error of Execute when no command is found
UnknownCommand(args) ==
    [kind |-> "unknown command", tok |-> Join(args, Space), pos |-> 0 - 1, ctx |-> ""]

\* what a call of Execute leaves: the FlagSets, the error it returns, the calls
\* of Command.Run it made, what it rendered and for which entry, and what the
\* resolver returned to it
Outcome(fs, e, run, o, path, res) ==
    [fsets |-> fs, err |-> e, ran |-> run, out |-> o, outPath |-> path, resolved |-> res]

\* a call of Command.Run
RunCall(cmd, args) == [cmd |-> cmd, args |-> args]

\* an end of Execute that runs the command whether its arguments parsed or not
executeParsedRunsAnyway(fs, cmd, p, r) ==
    Outcome([fs EXCEPT ![cmd] = p.f], NoErr, <<RunCall(cmd, Args(p.f))>>, "", <<>>, <<r>>)

\* the end of Execute: the parse of the command's arguments, then Run
executeParsed(fs, cmd, p, r) ==
    IF p.err # NoErr
    THEN Outcome([fs EXCEPT ![cmd] = p.f], [p.err EXCEPT !.ctx = "error parsing flags"],
                 <<>>, "", <<>>, <<r>>)
    ELSE Outcome([fs EXCEPT ![cmd] = p.f], NoErr, <<RunCall(cmd, Args(p.f))>>, "", <<>>, <<r>>)

\* Execute on the entry found: fs.Parse(allArgs), order being the order in
\* which Parse ranges over the positional fields
executeEntry(fs, cmd, r, order) ==
    executeParsed(fs, cmd,
                  Parse(fs[cmd], r.args, SelectSeq(order, LAMBDA q : q \in DOMAIN fs[cmd].posFields)),
                  r)

\* an Execute that reports a command not found without looking for a help token
executeFoundNoGeneralHelp(cmds, fs, args, order, r) ==
    IF ~r.found THEN Outcome(fs, UnknownCommand(args), <<>>, "", <<>>, <<r>>)
    ELSE IF hasHelpToken(args) THEN Outcome(fs, NoErr, <<>>, "cmdhelp", r.path, <<r>>)
    ELSE executeEntry(fs, cmds[r.path].Command, r, order)

\* Execute after the search of the command
executeFound(cmds, fs, args, order, r) ==
    IF ~r.found
    THEN IF hasHelpToken(args) THEN Outcome(fs, NoErr, <<>>, "help", <<>>, <<r>>)
         ELSE Outcome(fs, UnknownCommand(args), <<>>, "", <<>>, <<r>>)
    ELSE IF hasHelpToken(args) THEN Outcome(fs, NoErr, <<>>, "cmdhelp", r.path, <<r>>)
    ELSE executeEntry(fs, cmds[r.path].Command, r, order)

\* Dispatcher.Execute
Execute(cmds, fs, args, order) ==
    IF HandleCompletion(args) THEN Outcome(fs, NoErr, <<>>, "completion", <<>>, <<>>)
    ELSE IF Len(args) = 0 THEN Outcome(fs, NoErr, <<>>, "help", <<>>, <<>>)
    ELSE executeFound(cmds, fs, args, order, findCommandWithInterspersedFlags(cmds, fs, args))

-----------------------------------------------------------------------------
(* MCPServer: the JSON-RPC bridge to the commands of a Dispatcher          *)

MCPProtocolVersion == "2025-06-18"

ParseError == -32700
InvalidRequest == -32600
MethodNotFound == -32601
InvalidParams == -32602
NotInitialized == -32002

\* NewMCPServer: output holds the responses written so far
NewMCPServer == [initialized |-> FALSE, output |-> <<>>]

\* the params of a request: absent, not of the shape of the struct they are
\* decoded into, or an object, whose absent fields decode to zero values
NoParams == [kind |-> "nil", protocolVersion |-> "", name |-> <<>>, arguments |-> <<>>]
BadParams == [kind |-> "bad", protocolVersion |-> "", name |-> <<>>, arguments |-> <<>>]
InitializeParams(version) ==
    [kind |-> "object", protocolVersion |-> version, name |-> <<>>, arguments |-> <<>>]
ToolCallParams(name, m) ==
    [kind |-> "object", protocolVersion |-> "", name |-> name, arguments |-> m]

MCPRequest(jsonrpc, method, params) == [jsonrpc |-> jsonrpc, method |-> method, params |-> params]

\* the values of the arguments of a tool call
JSONBool(b) == [kind |-> "bool", b |-> b, s |-> <<>>, l |-> <<>>]
JSONString(s) == [kind |-> "string", b |-> FALSE, s |-> s, l |-> <<>>]
JSONList(l) == [kind |-> "list", b |-> FALSE, s |-> <<>>, l |-> l]

RestKey == <<"a", "r", "g", "u", "m", "e", "n", "t", "s">>

\* sendErrorResponse, sendResponse
sendErrorResponse(s, code, message) ==
    [s EXCEPT !.output = Append(@, [code |-> code, message |-> message, result |-> <<>>])]
sendResponse(s, result) ==
    [s EXCEPT !.output = Append(@, [code |-> 0, message |-> "", result |-> <<result>>])]

\* what the handling of a request leaves: the server, and the call of
\* Dispatcher.Execute it made, if any
Handled(s, exec) == [server |-> s, exec |-> exec]
ExecuteMade(args, o) == [args |-> args, outcome |-> o]

\* handleToolCall: the flag of one argument of the call
toolFlag(key, value) ==
    IF value.kind = "bool" /\ ~value.b THEN <<>>
    ELSE IF value.kind = "bool"
    THEN <<(IF Len(key) = 1 THEN <<"-">> ELSE DoubleHyphen) \o key>>
    ELSE <<(IF Len(key) = 1 THEN <<"-">> ELSE DoubleHyphen) \o key, value.s>>

\* handleToolCall: the flags of the arguments, ranged over in the order order
RECURSIVE toolFlags(_, _, _)
toolFlags(m, order, i) ==
    IF i > Len(order) THEN <<>>
    ELSE toolFlag(order[i], m[order[i]]) \o toolFlags(m, order, i + 1)

\* handleToolCall: the command line built from the arguments of the call, for
\* a command whose FlagSet declares no positional field
toolArgs(m, order) ==
    toolFlags(m, order, 1)
        \o (IF RestKey \in DOMAIN m /\ m[RestKey].kind = "list" THEN m[RestKey].l ELSE <<>>)

\* handleToolCall once the command is found
toolCallFound(s, cmds, fs, args) ==
    Handled(sendResponse(s, [isError |-> Execute(cmds, fs, args, <<>>).err # NoErr]),
            <<ExecuteMade(args, Execute(cmds, fs, args, <<>>))>>)

\* a handleToolCall that runs the tool of a server that is not initialized
handleToolCallOpen(s, cmds, fs, request, order) ==
    IF request.params.kind # "object"
    THEN Handled(sendErrorResponse(s, InvalidParams, "Invalid params"), <<>>)
    ELSE IF GetCommand(cmds, request.params.name) = NilCommand
    THEN Handled(sendErrorResponse(s, InvalidParams, "Tool not found"), <<>>)
    ELSE toolCallFound(s, cmds, fs,
                       <<request.params.name>> \o toolArgs(request.params.arguments, order))

\* handleToolCall
handleToolCall(s, cmds, fs, request, order) ==
    IF ~s.initialized
    THEN Handled(sendErrorResponse(s, NotInitialized, "Server not initialized"), <<>>)
    ELSE IF request.params.kind # "object"
    THEN Handled(sendErrorResponse(s, InvalidParams, "Invalid params"), <<>>)
    ELSE IF GetCommand(cmds, request.params.name) = NilCommand
    THEN Handled(sendErrorResponse(s, InvalidParams, "Tool not found"), <<>>)
    ELSE toolCallFound(s, cmds, fs,
                       <<request.params.name>> \o toolArgs(request.params.arguments, order))

\* handleInitialize
handleInitialize(s, request) ==
    IF request.params.kind = "bad"
    THEN sendErrorResponse(s, InvalidParams, "Invalid params")
    ELSE IF request.params.protocolVersion # MCPProtocolVersion
    THEN sendErrorResponse(s, InvalidParams, "Unsupported protocol version")
    ELSE [sendResponse(s, [protocolVersion |-> MCPProtocolVersion]) EXCEPT !.initialized = TRUE]

\* handleInitialized
handleInitialized(s, request) == s

\* handleToolsList
handleToolsList(s, cmds, request) ==
    IF ~s.initialized THEN sendErrorResponse(s, NotInitialized, "Server not initialized")
    ELSE sendResponse(s, [tools |-> DOMAIN GetCommands(cmds)])

\* handleResourcesList, handlePromptsList
handleResourcesList(s, request) ==
    IF ~s.initialized THEN sendErrorResponse(s, NotInitialized, "Server not initialized")
    ELSE sendResponse(s, [resources |-> <<>>])
handlePromptsList(s, request) ==
    IF ~s.initialized THEN sendErrorResponse(s, NotInitialized, "Server not initialized")
    ELSE sendResponse(s, [prompts |-> <<>>])

\* handleResourceRead, handlePromptGet
handleResourceRead(s, request) ==
    IF ~s.initialized THEN sendErrorResponse(s, NotInitialized, "Server not initialized")
    ELSE sendErrorResponse(s, MethodNotFound, "Method not implemented")
handlePromptGet(s, request) ==
    IF ~s.initialized THEN sendErrorResponse(s, NotInitialized, "Server not initialized")
    ELSE sendErrorResponse(s, MethodNotFound, "Method not implemented")

\* handleRequest for the methods that call no command
handleOther(s, cmds, request) ==
    IF request.method = "initialize" THEN handleInitialize(s, request)
    ELSE IF request.method = "notifications/initialized" THEN handleInitialized(s, request)
    ELSE IF request.method = "tools/list" THEN handleToolsList(s, cmds, request)
    ELSE IF request.method = "resources/list" THEN handleResourcesList(s, request)
    ELSE IF request.method = "resources/read" THEN handleResourceRead(s, request)
    ELSE IF request.method = "prompts/list" THEN handlePromptsList(s, request)
    ELSE IF request.method = "prompts/get" THEN handlePromptGet(s, request)
    ELSE sendErrorResponse(s, MethodNotFound, "Method not found")

\* handleRequest
handleRequest(s, cmds, fs, request, order) ==
    IF request.jsonrpc # "2.0"
    THEN Handled(sendErrorResponse(s, InvalidRequest, "Invalid Request"), <<>>)
    ELSE IF request.method = "tools/call" THEN handleToolCall(s, cmds, fs, request, order)
    ELSE Handled(handleOther(s, cmds, request), <<>>)

\* a line that is not a JSON-RPC request
Malformed == [jsonrpc |-> "", method |-> "not valid json", params |-> NoParams]

\* Run, for one line of the input
runLine(s, cmds, fs, line, order) ==
    IF line = Malformed THEN Handled(sendErrorResponse(s, ParseError, "Parse error"), <<>>)
    ELSE handleRequest(s, cmds, fs, line, order)

-----------------------------------------------------------------------------
(* The calling programs                                                    *)

\* all argument vectors of at most n tokens drawn from Toks
ArgVectors(Toks, n) == UNION {[1..k -> Toks] : k \in 0..n}

\* the state a call leaves in the variables that record it
Recorded(args, before, o) ==
    /\ arguments' = args
    /\ pre' = before
    /\ fsets' = o.fsets
    /\ err' = o.err
    /\ ran' = o.ran
    /\ out' = o.out
    /\ outPath' = o.outPath
    /\ resolved' = o.resolved

InitRecord ==
    /\ pc = "setup"
    /\ arguments = <<>>
    /\ err = NoErr
    /\ pre = fsets
    /\ ran = <<>>
    /\ out = ""
    /\ outPath = <<>>
    /\ resolved = <<>>
    /\ given = <<>>
    /\ server = NewMCPServer

(* A command-line program built on the Dispatcher: it registers commands   *)
(* under paths, may remove them, and calls Execute once on its arguments.  *)

MaxArgs == 4

tFoo == <<"f", "o", "o">>
tBar == <<"b", "a", "r">>
tBaz == <<"b", "a", "z">>
tX == <<"x">>
tV == <<"-", "v">>
tC == <<"-", "C">>
tH == <<"-", "h">>
tHelpFlag == <<"-", "-", "h", "e", "l", "p">>
tComplete == <<"-", "-", "c", "o", "m", "p", "l", "e", "t", "e", "-", "b", "a", "s", "h">>

pFoo == tFoo
pFooBar == tFoo \o Space \o tBar
pFooBarBaz == tFoo \o Space \o tBar \o Space \o tBaz
pFooBarWide == Space \o tFoo \o Space \o Space \o tBar \o Space

ExecTokens == {tFoo, tBar, tBaz, tX, tV, tC, tH, tHelpFlag, HelpWord}

\* the command lines: the tokens in any order, or a completion request before them
ExecInputs ==
    ArgVectors(ExecTokens, MaxArgs)
        \cup {<<tComplete>> \o v : v \in ArgVectors(ExecTokens, MaxArgs - 1)}

\* the commands the program constructs, each with its own FlagSet
CommandFlagSets ==
    [ cFoo |-> Var(NewFlagSet, "verbose"),
      cBar |-> Var(Var(NewFlagSet, "verbose"), "config"),
      cBaz |-> NewFlagSet ]

\* the Dispatch calls the program may make
Registrations ==
    { <<pFoo, "cFoo">>, <<pFooBar, "cBar">>, <<pFooBarWide, "cBar">>, <<pFooBarBaz, "cBaz">> }

Init ==
    /\ fsets = CommandFlagSets
    /\ commands = <<>>
    /\ InitRecord

DispatchCall ==
    /\ pc = "setup"
    /\ \E reg \in Registrations : commands' = Dispatch(commands, reg[1], reg[2])
    /\ UNCHANGED <<fsets, pc, arguments, err, pre, ran, out, outPath, resolved, given, server>>

RemoveCall ==
    /\ pc = "setup"
    /\ \E reg \in Registrations : commands' = Remove(commands, reg[1])
    /\ UNCHANGED <<fsets, pc, arguments, err, pre, ran, out, outPath, resolved, given, server>>

\* all positions some FlagSet declares a positional field at
AllPositions(fs) == UNION {DOMAIN fs[c].posFields : c \in DOMAIN fs}

ExecuteCall ==
    /\ pc = "setup"
    /\ \E args \in ExecInputs :
       \E order \in Orders(AllPositions(fsets)) :
            Recorded(args, fsets, Execute(commands, fsets, args, order))
    /\ pc' = "done"
    /\ UNCHANGED <<commands, given, server>>

Next == DispatchCall \/ RemoveCall \/ ExecuteCall

Spec == Init /\ [][Next]_vars

-----------------------------------------------------------------------------
(* A program that declares the options of one FlagSet, in the order of its *)
(* source, and calls Parse once on its arguments.                          *)

MaxParseArgs == 3

\* the flags in the order the program declares them
ParseFlags == <<"verbose", "list", "all", "name", "count">>

\* the positional fields in the order the program declares them, both integers
ParsePositions == <<PosDecl("Level", "int", IntV(0)), PosDecl("Count", "int", IntV(0))>>

pVLA == <<"-", "v", "l", "a">>
pNV == <<"-", "n", "v">>
pNC == <<"-", "n", "c">>
pVN == <<"-", "v", "n">>
pVerbose == <<"-", "-", "v", "e", "r", "b", "o", "s", "e">>
pUnknown == <<"-", "-", "u", "n", "k", "n", "o", "w", "n">>
pSeven == <<"7">>

ParseTokens == {pVLA, pNV, pNC, pVN, pVerbose, pUnknown, DoubleHyphen, tX, pSeven}

\* what a Parse call on the program's FlagSet leaves
ParseOutcome(p) == Outcome([test |-> p.f], p.err, <<>>, "", <<>>, <<>>)

InitParse ==
    /\ fsets = [test |-> NewFlagSet]
    /\ commands = <<>>
    /\ InitRecord

\* BoolVar, StringVar, IntVar: the next flag of the program
VarCall ==
    /\ pc = "setup"
    /\ Cardinality(DOMAIN fsets.test.vals) < Len(ParseFlags)
    /\ fsets' = [fsets EXCEPT !.test = Var(@, ParseFlags[Cardinality(DOMAIN fsets.test.vals) + 1])]
    /\ pre' = fsets'
    /\ UNCHANGED <<commands, pc, arguments, err, ran, out, outPath, resolved, given, server>>

\* StringPosVar, IntPosVar: the next positional field of the program
PosVarCall ==
    /\ pc = "setup"
    /\ Cardinality(DOMAIN fsets.test.posFields) < Len(ParsePositions)
    /\ fsets' = [fsets EXCEPT !.test =
                    PosVar(@, Cardinality(DOMAIN fsets.test.posFields),
                           ParsePositions[Cardinality(DOMAIN fsets.test.posFields) + 1])]
    /\ pre' = fsets'
    /\ UNCHANGED <<commands, pc, arguments, err, ran, out, outPath, resolved, given, server>>

\* FlagSet.Rest, which the program calls after its positional fields
RestCall ==
    /\ pc = "setup"
    /\ Cardinality(DOMAIN fsets.test.posFields) = Len(ParsePositions)
    /\ ~fsets.test.restField.set
    /\ fsets' = [fsets EXCEPT !.test = Rest(@)]
    /\ pre' = fsets'
    /\ UNCHANGED <<commands, pc, arguments, err, ran, out, outPath, resolved, given, server>>

AllowUnknownFlagsCall ==
    /\ pc = "setup"
    /\ \E allow \in BOOLEAN : fsets' = [fsets EXCEPT !.test = AllowUnknownFlags(@, allow)]
    /\ pre' = fsets'
    /\ UNCHANGED <<commands, pc, arguments, err, ran, out, outPath, resolved, given, server>>

ParseCall ==
    /\ pc = "setup"
    /\ \E args \in ArgVectors(ParseTokens, MaxParseArgs) :
       \E order \in Orders(DOMAIN fsets.test.posFields) :
            Recorded(args, fsets, ParseOutcome(Parse(fsets.test, args, order)))
    /\ pc' = "done"
    /\ UNCHANGED <<commands, given, server>>

NextParse == VarCall \/ PosVarCall \/ RestCall \/ AllowUnknownFlagsCall \/ ParseCall

SpecParse == InitParse /\ [][NextParse]_vars

-----------------------------------------------------------------------------
(* A program that declares scalar flags and parses one "--name=value"      *)
(* token for each of them.                                                 *)

ScalarFlags == {"verbose", "name", "count", "timeout"}

\* a text written on the command line and the value it stands for
Sample(text, v) == [text |-> text, v |-> v]

\* valid texts of each kind of scalar flag
Samples(kind) ==
    IF kind = "bool"
    THEN { Sample(<<"t", "r", "u", "e">>, BoolV(TRUE)), Sample(<<"f", "a", "l", "s", "e">>, BoolV(FALSE)),
           Sample(<<"1">>, BoolV(TRUE)), Sample(<<"F">>, BoolV(FALSE)) }
    ELSE IF kind = "string"
    THEN { Sample(<<>>, StrV(<<>>)), Sample(<<"x">>, StrV(<<"x">>)),
           Sample(<<"a", "=", "b">>, StrV(<<"a", "=", "b">>)),
           Sample(<<"-", "v">>, StrV(<<"-", "v">>)) }
    ELSE IF kind = "int"
    THEN { Sample(<<"7">>, IntV(7)), Sample(<<"-", "3">>, IntV(0 - 3)),
           Sample(<<"0">>, IntV(0)), Sample(<<"+", "1", "2">>, IntV(12)) }
    ELSE { Sample(<<"5", "s">>, DurV(5)), Sample(<<"1", "m", "3", "0", "s">>, DurV(90)),
           Sample(<<"0">>, DurV(0)), Sample(<<"-", "2", "h">>, DurV(0 - 7200)) }

\* the assignments of a sample to every flag of ids
Assignments(ids) == {g \in [ids -> UNION {Samples(k) : k \in {"bool", "string", "int", "duration"}}] :
                        \A id \in ids : g[id] \in Samples(FlagObjects[id].kind)}

\* the token "--name=value" of the flag id under the assignment g
LongToken(id, g) == <<"-", "-">> \o FlagObjects[id].Name \o <<"=">> \o g[id].text

ScalarVarCall ==
    /\ pc = "setup"
    /\ \E id \in ScalarFlags \ DOMAIN fsets.test.vals : fsets' = [fsets EXCEPT !.test = Var(@, id)]
    /\ pre' = fsets'
    /\ UNCHANGED <<commands, pc, arguments, err, ran, out, outPath, resolved, given, server>>

ParseRoundTripCall ==
    /\ pc = "setup"
    /\ \E g \in Assignments(DOMAIN fsets.test.vals) :
       \E o \in Orders(DOMAIN fsets.test.vals) :
            /\ given' = g
            /\ Recorded([k \in DOMAIN o |-> LongToken(o[k], g)], fsets,
                        ParseOutcome(Parse(fsets.test, [k \in DOMAIN o |-> LongToken(o[k], g)], <<>>)))
    /\ pc' = "done"
    /\ UNCHANGED <<commands, server>>

NextRoundTrip == ScalarVarCall \/ ParseRoundTripCall

SpecRoundTrip == InitParse /\ [][NextRoundTrip]_vars

-----------------------------------------------------------------------------
(* A program that declares positional fields at positions with a gap, in   *)
(* any order, and a boolean flag, and calls Parse once.                    *)

MaxPosArgs == 4

\* the positional fields of the program, by position: 1 is not declared
GapPositions ==
    (0 :> PosDecl("Command", "string", StrV(<<"d">>))) @@ (2 :> PosDecl("Count", "int", IntV(5)))

PosTokens == {tX, pSeven, tV, DoubleHyphen}

\* StringPosVar, IntPosVar at any position not yet declared
PosVarAnyCall ==
    /\ pc = "setup"
    /\ \E p \in DOMAIN GapPositions \ DOMAIN fsets.test.posFields :
            fsets' = [fsets EXCEPT !.test = PosVar(@, p, GapPositions[p])]
    /\ pre' = fsets'
    /\ UNCHANGED <<commands, pc, arguments, err, ran, out, outPath, resolved, given, server>>

\* BoolVar of the flag verbose
BoolVarCall ==
    /\ pc = "setup"
    /\ "verbose" \notin DOMAIN fsets.test.vals
    /\ fsets' = [fsets EXCEPT !.test = Var(@, "verbose")]
    /\ pre' = fsets'
    /\ UNCHANGED <<commands, pc, arguments, err, ran, out, outPath, resolved, given, server>>

ParsePosCall ==
    /\ pc = "setup"
    /\ \E args \in ArgVectors(PosTokens, MaxPosArgs) :
       \E order \in Orders(DOMAIN fsets.test.posFields) :
            Recorded(args, fsets, ParseOutcome(Parse(fsets.test, args, order)))
    /\ pc' = "done"
    /\ UNCHANGED <<commands, given, server>>

NextPositional == PosVarAnyCall \/ BoolVarCall \/ ParsePosCall

SpecPositional == InitParse /\ [][NextPositional]_vars

-----------------------------------------------------------------------------
(* A program that calls Parse several times on one FlagSet, as a shell or  *)
(* a test does: it declares its flags, then parses one argument vector     *)
(* after another; given holds the vectors parsed so far.                   *)

MaxCalls == 2

ReparseInputs ==
    { <<>>, <<pVerbose>>, <<tX>>, <<pVerbose, tX>>, <<pNV>>, <<pUnknown>>, <<pVLA>>,
      <<tX, pUnknown, pVerbose>>, <<pSeven, DoubleHyphen, pVLA>> }

ReparseCall ==
    /\ pc \in {"setup", "parsed"}
    /\ Len(given) < MaxCalls
    /\ \E args \in ReparseInputs :
            /\ Recorded(args, fsets, ParseOutcome(Parse(fsets.test, args, <<>>)))
            /\ given' = Append(given, args)
    /\ pc' = "parsed"
    /\ UNCHANGED <<commands, server>>

NextReparse == VarCall \/ AllowUnknownFlagsCall \/ ReparseCall

SpecReparse == InitParse /\ [][NextReparse]_vars

(* A program that registers, replaces and removes commands under paths     *)
(* spelled with different spacing and then calls Execute; given holds the  *)
(* Dispatch and Remove calls it has made.                                  *)

MaxRegistryCalls == 3

RegistryPaths == {pFoo, pFooBar, pFooBarWide}

RegistryRegs == { <<pFoo, "cFoo">>, <<pFooBar, "cBar">>, <<pFooBarWide, "cBaz">> }

RegistryInputs ==
    { <<tFoo>>, <<tFoo, tBar>>, <<tBar>>, <<tFoo, tBar, tX>>, <<tFoo, tV, tBar>>,
      <<tFoo, tC>>, <<tFoo, tBar, tC>>, <<tFoo, tX, tV, tBaz>> }

Called(op, path, cmd) == [op |-> op, path |-> path, cmd |-> cmd]

RegistryDispatchCall ==
    /\ pc = "setup"
    /\ Len(given) < MaxRegistryCalls
    /\ \E reg \in RegistryRegs :
            /\ commands' = Dispatch(commands, reg[1], reg[2])
            /\ given' = Append(given, Called("Dispatch", reg[1], reg[2]))
    /\ UNCHANGED <<fsets, pc, arguments, err, pre, ran, out, outPath, resolved, server>>

RegistryRemoveCall ==
    /\ pc = "setup"
    /\ Len(given) < MaxRegistryCalls
    /\ \E path \in RegistryPaths :
            /\ commands' = Remove(commands, path)
            /\ given' = Append(given, Called("Remove", path, NilCommand))
    /\ UNCHANGED <<fsets, pc, arguments, err, pre, ran, out, outPath, resolved, server>>

RegistryExecuteCall ==
    /\ pc = "setup"
    /\ \E args \in RegistryInputs :
            Recorded(args, fsets, Execute(commands, fsets, args, <<>>))
    /\ pc' = "done"
    /\ UNCHANGED <<commands, given, server>>

NextRegistry == RegistryDispatchCall \/ RegistryRemoveCall \/ RegistryExecuteCall

SpecRegistry == Init /\ [][NextRegistry]_vars

(* A program one of whose commands has a flag registered with a short      *)
(* character and no long name, and whose command line has flags before     *)
(* and between the command words.                                          *)

MaxShortOnlyArgs == 4

tXFlag == <<"-", "x">>

ShortOnlyFlagSets == [CommandFlagSets EXCEPT !.cFoo = Var(@, "xonly")]

ShortOnlyTokens == {tFoo, tBar, tV, tXFlag, tC, tX, tHelpFlag}

InitShortOnly ==
    /\ fsets = ShortOnlyFlagSets
    /\ commands = <<>>
    /\ InitRecord

ShortOnlyExecuteCall ==
    /\ pc = "setup"
    /\ \E args \in ArgVectors(ShortOnlyTokens, MaxShortOnlyArgs) :
            Recorded(args, fsets, Execute(commands, fsets, args, <<>>))
    /\ pc' = "done"
    /\ UNCHANGED <<commands, given, server>>

NextShortOnly == DispatchCall \/ RemoveCall \/ ShortOnlyExecuteCall

SpecShortOnly == InitShortOnly /\ [][NextShortOnly]_vars

(* A program that goes on after Execute: it resolves command lines with    *)
(* findCommandWithInterspersedFlags between Execute, Dispatch and Remove   *)
(* calls; given holds the registry the latest call of the resolver saw.    *)

ResolveInputs ==
    { <<tV, tFoo>>, <<tFoo, tV, tBar>>, <<tFoo, tBar, tX>>, <<tC, tX, tFoo, tBar>> }

BetweenInputs == { <<tFoo, tV>>, <<tFoo, tBar, tV>>, <<tFoo, tBar, tC, tX>> }

ResolveCall ==
    /\ pc = "setup"
    /\ \E args \in ResolveInputs :
            Recorded(args, fsets,
                     Outcome(fsets, NoErr, <<>>, "", <<>>,
                             <<findCommandWithInterspersedFlags(commands, fsets, args)>>))
    /\ given' = <<commands>>
    /\ UNCHANGED <<commands, pc, server>>

ExecuteBetweenCall ==
    /\ pc = "setup"
    /\ \E args \in BetweenInputs :
            Recorded(args, fsets, Execute(commands, fsets, args, <<>>))
    /\ given' = <<>>
    /\ UNCHANGED <<commands, pc, server>>

NextResolve == DispatchCall \/ RemoveCall \/ ResolveCall \/ ExecuteBetweenCall

SpecResolve == Init /\ [][NextResolve]_vars

(* A program whose arguments name flags wrongly: without a value, with a    *)
(* value the flag rejects, or not registered.                              *)

MaxScanArgs == 2

sMaybe == <<"-", "-", "v", "e", "r", "b", "o", "s", "e", "=", "m", "a", "y", "b", "e">>
sCount == <<"-", "-", "c", "o", "u", "n", "t">>
sCountEq == <<"-", "-", "c", "o", "u", "n", "t", "=", "x">>
sCX == <<"-", "c", "x">>
sVC == <<"-", "v", "c">>
sVZ == <<"-", "v", "z">>

sName == <<"-", "-", "n", "a", "m", "e">>

ScanTokens ==
    {sMaybe, sCount, sCountEq, sCX, sVC, sVZ, pUnknown, tX, pSeven, sName, pVN, pVerbose, DoubleHyphen}

ScanCall ==
    /\ pc = "setup"
    /\ \E args \in ArgVectors(ScanTokens, MaxScanArgs) :
            Recorded(args, fsets, ParseOutcome(Parse(fsets.test, args, <<>>)))
    /\ pc' = "done"
    /\ UNCHANGED <<commands, given, server>>

NextScan == VarCall \/ AllowUnknownFlagsCall \/ ScanCall

SpecScan == InitParse /\ [][NextScan]_vars

(* A program that registers flags under names and runes that are taken     *)

MaxRegistrations == 3
MaxOverwriteArgs == 2

OverwriteFlags == {"verbose", "chatty", "vee", "xonly"}

pVee == <<"-", "-", "v", "e", "e">>
pV == <<"-", "v">>
pUpperV == <<"-", "V">>

OverwriteTokens == {pVerbose, pVee, pV, pUpperV, tX}

\* f.BoolVar, f.StringVar: the log of the calls is kept in given
OverwriteVarCall ==
    /\ pc = "setup"
    /\ Len(given) < MaxRegistrations
    /\ \E id \in OverwriteFlags :
            /\ fsets' = [fsets EXCEPT !.test = Var(@, id)]
            /\ given' = Append(given, id)
    /\ pre' = fsets'
    /\ UNCHANGED <<commands, pc, arguments, err, ran, out, outPath, resolved, server>>

OverwriteParseCall ==
    /\ pc = "setup"
    /\ \E args \in ArgVectors(OverwriteTokens, MaxOverwriteArgs) :
            Recorded(args, fsets, ParseOutcome(Parse(fsets.test, args, <<>>)))
    /\ pc' = "done"
    /\ UNCHANGED <<commands, given, server>>

NextOverwrite == OverwriteVarCall \/ OverwriteParseCall

SpecOverwrite == InitParse /\ [][NextOverwrite]_vars

-----------------------------------------------------------------------------
(* A program that runs an MCPServer on its Dispatcher: the clients send    *)
(* requests in any order; given holds the line the server read last.       *)

MaxRequests == 3

ToolCalls ==
    { ToolCallParams(pFoo, <<>>),
      ToolCallParams(pFooBar, (<<"v", "e", "r", "b", "o", "s", "e">> :> JSONBool(TRUE))),
      ToolCallParams(pFoo, (<<"c", "o", "n", "f", "i", "g">> :> JSONString(tX))),
      ToolCallParams(pFoo, (RestKey :> JSONList(<<tX>>))),
      ToolCallParams(tX, <<>>) }

GatedMethods ==
    {"tools/list", "tools/call", "resources/list", "resources/read", "prompts/list", "prompts/get"}

MCPLines ==
    {MCPRequest("2.0", "initialize", p) :
        p \in {NoParams, BadParams, InitializeParams(MCPProtocolVersion), InitializeParams("1.0.0")}}
    \cup {MCPRequest("2.0", "tools/call", p) : p \in {NoParams, BadParams} \cup ToolCalls}
    \cup {MCPRequest("2.0", m, NoParams) :
            m \in (GatedMethods \ {"tools/call"}) \cup {"notifications/initialized", "unknown"}}
    \cup {MCPRequest("1.0", "initialize", InitializeParams(MCPProtocolVersion)),
          MCPRequest("1.0", "initialize", InitializeParams("1.0.0")),
          MCPRequest("1.0", "tools/call", ToolCallParams(pFoo, <<>>))}
    \cup {MCPRequest("1.0", m, NoParams) : m \in GatedMethods \ {"tools/call"}}
    \cup {Malformed}

InitMCP ==
    /\ fsets = CommandFlagSets
    /\ commands = Dispatch(Dispatch(<<>>, pFoo, "cFoo"), pFooBar, "cBar")
    /\ InitRecord

\* the keys of the arguments of a tool call that become flags
FlagKeys(line) == DOMAIN line.params.arguments \ {RestKey}

\* MCPServer.Run reads a line and answers it
MCPRequestCall ==
    /\ Len(server.output) < MaxRequests
    /\ \E line \in MCPLines :
       \E order \in Orders(FlagKeys(line)) :
            /\ given' = <<line>>
            /\ server' = runLine(server, commands, fsets, line, order).server
            /\ IF runLine(server, commands, fsets, line, order).exec = <<>>
               THEN UNCHANGED <<fsets, arguments, err, pre, ran, out, outPath, resolved>>
               ELSE Recorded(runLine(server, commands, fsets, line, order).exec[1].args, fsets,
                             runLine(server, commands, fsets, line, order).exec[1].outcome)
    /\ UNCHANGED <<commands, pc>>

NextMCP == MCPRequestCall

SpecMCP == InitMCP /\ [][NextMCP]_vars

-----------------------------------------------------------------------------
(* A program whose command line writes its flags with their values         *)
(* attached and in clusters, before, between and after the command words.  *)

MaxFormArgs == 3

tConfigEq == <<"-", "-", "c", "o", "n", "f", "i", "g", "=", "x">>
tCAttached == <<"-", "C", "x">>
tVXCluster == <<"-", "v", "x">>

FormTokens == {tFoo, tBar, tConfigEq, tCAttached, tVXCluster}

FormsExecuteCall ==
    /\ pc = "setup"
    /\ \E args \in ArgVectors(FormTokens, MaxFormArgs) :
            Recorded(args, fsets, Execute(commands, fsets, args, <<>>))
    /\ pc' = "done"
    /\ UNCHANGED <<commands, given, server>>

NextForms == DispatchCall \/ RemoveCall \/ FormsExecuteCall

SpecForms == InitShortOnly /\ [][NextForms]_vars

-----------------------------------------------------------------------------
(* Properties of the Dispatcher                                            *)

HelpTokens == {tH, tHelpFlag, HelpWord}

HasHelp(args) == \E i \in 1..Len(args) : args[i] \in HelpTokens

\* the classification of the recorded arguments
ScanOf == classify(commands, arguments, 1, NoParts)

\* the path the first j command candidates spell
PrefixPath(sc, j) == normalizeCommandPath(Join(SubSeq(sc.commandParts, 1, j), Space))

\* the prefix lengths whose path is registered and whose validation passes
Validating(sc) ==
    {j \in 1..Len(sc.commandParts) :
        /\ PrefixPath(sc, j) \in DOMAIN commands
        /\ prefixValid(pre[commands[PrefixPath(sc, j)].Command], sc.skippedItems,
                       sc.commandPartIndices[j])}

Longest(S) == CHOOSE j \in S : \A k \in S : k <= j

\* the recorded call ran exactly the command cmd on the leftover arguments left
Ran(cmd, left) == ran = <<RunCall(cmd, left)>>

AllThreeRegistered == {pFoo, pFooBar, pFooBarBaz} \subseteq DOMAIN commands

\* C1: the resolver returns the longest prefix of the command candidates whose
\* path is registered and whose validation passes, with the arguments rebuilt
\* for that prefix, and nothing when no prefix qualifies; with "foo", "foo bar"
\* and "foo bar baz" registered, [foo,bar,baz,x] runs "foo bar baz" on [x],
\* [foo,bar,x] runs "foo bar" on [x] and [foo,x] runs "foo" on [x].
C1_LongestPrefix ==
    (pc = "done" /\ resolved # <<>>) =>
        /\ LET sc == ScanOf
               V == Validating(sc)
               j == Longest(V)
           IN  IF V = {} THEN ~resolved[1].found
               ELSE resolved[1] =
                        Found(PrefixPath(sc, j),
                              fullArgs(arguments, sc.skippedItems, sc.commandPartIndices[j]))
        /\ (AllThreeRegistered /\ arguments = <<tFoo, tBar, tBaz, tX>>) =>
                resolved[1] = Found(pFooBarBaz, <<tX>>) /\ Ran(commands[pFooBarBaz].Command, <<tX>>)
        /\ (AllThreeRegistered /\ arguments = <<tFoo, tBar, tX>>) =>
                resolved[1] = Found(pFooBar, <<tX>>) /\ Ran(commands[pFooBar].Command, <<tX>>)
        /\ (AllThreeRegistered /\ arguments = <<tFoo, tX>>) =>
                resolved[1] = Found(pFoo, <<tX>>) /\ Ran(commands[pFoo].Command, <<tX>>)

\* the positions of the tokens of args that do not look like flags
PlainIdx(args) ==
    SelectSeq([i \in 1..Len(args) |-> i], LAMBDA i : ~HasPrefix(args[i], <<"-">>))

\* the path the first j tokens that do not look like flags spell, idx their positions
PlainPath(args, idx, j) == normalizeCommandPath(Join([k \in 1..j |-> args[idx[k]]], Space))

\* C1 as stated: the resolver returns the longest prefix of ALL the tokens that
\* do not look like flags whose path is registered and whose validation passes.
C1_LongestOfPlainTokens ==
    (pc = "done" /\ resolved # <<>>) =>
        LET idx == PlainIdx(arguments)
            sc == ScanOf
            V == {j \in 1..Len(idx) :
                    /\ PlainPath(arguments, idx, j) \in DOMAIN commands
                    /\ prefixValid(pre[commands[PlainPath(arguments, idx, j)].Command],
                                   sc.skippedItems, idx[j])}
        IN  IF V = {} THEN ~resolved[1].found
            ELSE resolved[1].found /\ resolved[1].path = PlainPath(arguments, idx, Longest(V))

\* a longer registered prefix failed its validation and a shorter one was returned
C1_Witness ==
    /\ pc = "done"
    /\ resolved # <<>>
    /\ resolved[1].found
    /\ LET sc == ScanOf
       IN  \E j \in 1..Len(sc.commandParts) :
                /\ j > Longest(Validating(sc))
                /\ PrefixPath(sc, j) \in DOMAIN commands

\* the tokens that name a registered flag of f: "-s" and "--name"
FlagTokens(f, bool) ==
    {<<"-", s>> : s \in {x \in DOMAIN f.shortMap : FlagIsBool(f.shortMap[x]) = bool}}
        \cup {<<"-", "-">> \o n : n \in {x \in DOMAIN f.flags : FlagIsBool(f.flags[x]) = bool}}

Arranged(ok, canon) == [ok |-> ok, canon |-> canon]

\* Reads args as the words of a path with flags of f among them: a nullary flag
\* as one token, a flag with a value followed by a token that does not look
\* like a flag.  k words are read, acc holds the flags read; from the last word
\* on the arguments are left as they are.  canon is the same call with the
\* flags moved after the path.
RECURSIVE Arrange(_, _, _, _, _, _)
Arrange(f, words, args, i, k, acc) ==
    IF k = Len(words) THEN Arranged(TRUE, words \o acc \o SubSeq(args, i, Len(args)))
    ELSE IF i > Len(args) THEN Arranged(FALSE, <<>>)
    ELSE IF args[i] = words[k + 1] THEN Arrange(f, words, args, i + 1, k + 1, acc)
    ELSE IF args[i] \in FlagTokens(f, TRUE)
    THEN Arrange(f, words, args, i + 1, k, Append(acc, args[i]))
    ELSE IF /\ args[i] \in FlagTokens(f, FALSE)
            /\ i + 1 <= Len(args)
            /\ ~HasPrefix(args[i + 1], <<"-">>)
    THEN Arrange(f, words, args, i + 2, k, acc \o <<args[i], args[i + 1]>>)
    ELSE Arranged(FALSE, <<>>)

\* the recorded call left what the outcome o describes
SameOutcome(o) ==
    /\ o.fsets = fsets
    /\ o.err = err
    /\ o.ran = ran
    /\ o.out = out
    /\ o.outPath = outPath

\* C2: for a command registered under a path of several words, a call that
\* writes flags of the command's schema before, between or after the path words
\* does what the call with the same flags moved after the path does: the same
\* command runs with the same bound values and the same leftover arguments.
C2_FlagsAnywhere ==
    pc = "done" =>
        \A p \in DOMAIN commands :
            (/\ Len(Fields(p)) >= 2
             /\ Arrange(pre[commands[p].Command], Fields(p), arguments, 1, 0, <<>>).ok)
            => SameOutcome(Execute(commands, pre,
                                   Arrange(pre[commands[p].Command], Fields(p), arguments, 1, 0, <<>>).canon,
                                   <<>>))

\* C3: when the input holds a help token and a command resolves, Execute
\* renders that command's help and returns no error; Run is not called and no
\* FlagSet changes (Parse is not called).
C3_HelpIntercepts ==
    (/\ pc = "done"
     /\ HasHelp(arguments)
     /\ ~HandleCompletion(arguments))
    => LET sc == ScanOf
           V == Validating(sc)
       IN  V # {} =>
                /\ out = "cmdhelp"
                /\ outPath = PrefixPath(sc, Longest(V))
                /\ err = NoErr
                /\ ran = <<>>
                /\ fsets = pre

\* help was rendered for "foo bar" with the help word after a positional argument
C3_Witness ==
    /\ pc = "done"
    /\ out = "cmdhelp"
    /\ outPath = pFooBar
    /\ arguments = <<tFoo, tBar, tX, HelpWord>>

\* the error Execute returns for a command not found carries the whole input
IsUnknownCommand(e, args) == e.kind = "unknown command" /\ e.tok = Join(args, Space)

NotFoundBehaviour ==
    IF HasHelp(arguments) THEN out = "help" /\ err = NoErr /\ ran = <<>>
    ELSE IsUnknownCommand(err, arguments) /\ ran = <<>> /\ out = ""

\* C4 as stated: whenever no candidate prefix resolves, Execute renders general
\* help when the input holds a help token and returns "unknown command" with
\* the whole input otherwise.
C4_NotFound == (pc = "done" /\ Validating(ScanOf) = {}) => NotFoundBehaviour

\* C4 as amended: the same for an input that is not empty and is not a
\* completion request.
C4_NotFoundNonEmpty ==
    (/\ pc = "done"
     /\ Validating(ScanOf) = {}
     /\ arguments # <<>>
     /\ arguments[1] \notin CompletionFlags)
    => NotFoundBehaviour

\* a command was not found although commands are registered
C4_Witness ==
    /\ pc = "done"
    /\ commands # <<>>
    /\ IsUnknownCommand(err, arguments)
    /\ Len(arguments) >= 2

-----------------------------------------------------------------------------
(* Properties of FlagSet.Parse                                             *)

\* the program's FlagSet before and after the recorded call
Before == pre.test
After == fsets.test

\* C5: for a schema of scalar flags and an assignment of a valid text to each,
\* Parse of one "--name=value" token per flag returns no error, leaves every
\* flag bound to the value its text stands for and leaves Args() empty.
C5_RoundTrip ==
    pc = "done" =>
        /\ err = NoErr
        /\ DOMAIN given = DOMAIN Before.vals
        /\ \A id \in DOMAIN given : After.vals[id] = given[id].v
        /\ DOMAIN After.vals = DOMAIN given
        /\ Args(After) = <<>>

\* the four kinds of scalar flag parsed together, the string holding a "="
C5_Witness ==
    /\ pc = "done"
    /\ DOMAIN given = ScalarFlags
    /\ given["name"].text = <<"a", "=", "b">>
    /\ given["count"].v = IntV(0 - 3)
    /\ given["verbose"].text = <<"F">>
    /\ given["timeout"].v = DurV(90)
    /\ After.vals["name"] = StrV(<<"a", "=", "b">>)

\* the scan of the tokens before position k of the recorded arguments
ScanTo(k) == scanFrom(ParseReset(Before), SubSeq(arguments, 1, k - 1), 1)

\* the scan s of the tokens before a position went through all of them: the
\* token at the position is the next the scan of Parse looks at
Reached(s) == s.stop = "end" /\ s.err = NoErr /\ s.f.unknownFlags = <<>>

\* tok is scanned as a cluster of short flags
IsCluster(tok) == HasPrefix(tok, <<"-">>) /\ Len(tok) > 1 /\ ~HasPrefix(tok, DoubleHyphen)

\* the rune r names a registered flag of f that is (bool) or is not boolean
Registered(f, r, bool) == r \in DOMAIN f.shortMap /\ FlagIsBool(f.shortMap[r]) = bool

\* the number of registered boolean flags the cluster runes begins with
Lead(f, runes) ==
    CHOOSE m \in 0..Len(runes) :
        /\ \A j \in 1..m : Registered(f, runes[j], TRUE)
        /\ m < Len(runes) => ~Registered(f, runes[m + 1], TRUE)

\* f with the flags named by the first m runes set to true
WithBools(f, runes, m) ==
    [f EXCEPT !.vals = [id \in DOMAIN @ |->
                            IF \E j \in 1..m : f.shortMap[runes[j]] = id THEN BoolV(TRUE)
                            ELSE @[id]]]

\* the recorded call ended as Parse ends when its scan goes on from position
\* next with the FlagSet f
GoesOn(f, next) ==
    \E order \in Orders(DOMAIN Before.posFields) :
        Parsed(After, err) = parseBind(scanFrom(f, arguments, next), order)

\* what the cluster at position k does when its first flag with a value, at
\* rune m + 1, is given the text value and the scan goes on at position next
TakesValue(f, runes, m, k, value, next) ==
    IF ValueSet(FlagObjects[f.shortMap[runes[m + 1]]].kind, value).ok
    THEN GoesOn([WithBools(f, runes, m) EXCEPT
                    !.vals[f.shortMap[runes[m + 1]]] =
                        ValueSet(FlagObjects[f.shortMap[runes[m + 1]]].kind, value).v],
                next)
    ELSE /\ err = FlagErr("InvalidValue", <<"-", runes[m + 1]>>)
         /\ After.vals = WithBools(f, runes, m).vals

\* the cluster fails for want of a value, its leading booleans being set
LacksValue(f, runes, m) ==
    /\ err = FlagErr("MissingValue", <<"-", runes[m + 1]>>)
    /\ After.vals = WithBools(f, runes, m).vals

\* The cluster at position k, scanned from the FlagSet f; collide says whether
\* a flag with a value that is followed by the rune of another one fails.
ClusterDoes(f, runes, m, k, collide) ==
    IF m = Len(runes) THEN GoesOn(WithBools(f, runes, m), k + 1)
    ELSE IF ~Registered(f, runes[m + 1], FALSE) THEN TRUE
    ELSE IF m + 1 < Len(runes)
    THEN IF collide /\ Registered(f, runes[m + 2], FALSE) THEN LacksValue(f, runes, m)
         ELSE TakesValue(f, runes, m, k, SubSeq(runes, m + 2, Len(runes)), k + 1)
    ELSE IF k < Len(arguments) THEN TakesValue(f, runes, m, k, arguments[k + 1], k + 2)
    ELSE LacksValue(f, runes, m)

ClustersDo(collide) ==
    \A k \in 1..Len(arguments) :
        (IsCluster(arguments[k]) /\ Reached(ScanTo(k))) =>
            ClusterDoes(ScanTo(k).f, Tail(arguments[k]),
                        Lead(ScanTo(k).f, Tail(arguments[k])), k, collide)

ClusterInstances ==
    /\ (arguments = <<pVLA>> /\ "all" \in DOMAIN Before.vals) =>
            /\ err = NoErr
            /\ After.vals["verbose"] = BoolV(TRUE)
            /\ After.vals["list"] = BoolV(TRUE)
            /\ After.vals["all"] = BoolV(TRUE)
            /\ Args(After) = <<>>
    /\ (arguments = <<pNV>> /\ "name" \in DOMAIN Before.vals) =>
            /\ err = NoErr
            /\ After.vals["name"] = StrV(<<"v">>)
            /\ After.vals["verbose"] = BoolV(FALSE)

\* C6 as stated: in a cluster the scan reaches, every leading boolean flag is
\* set to true and the first flag with a value takes the rest of the cluster,
\* or the next token when it is the last rune, and ends the cluster.
C6_ClusterAsStated == pc = "done" => (ClustersDo(FALSE) /\ ClusterInstances)

\* C6 as amended: the same, except that a flag with a value followed in the
\* cluster by the rune of another registered flag with a value takes nothing:
\* Parse fails with MissingValue, as it does when the flag is the last rune and
\* no token follows.  ["-vla"] sets v, l and a; ["-nv"] sets n to "v", not v.
C6_Cluster == pc = "done" => (ClustersDo(TRUE) /\ ClusterInstances)

\* "-vn" took the next token as the value of n after setting v, and went on
C6_Witness ==
    /\ pc = "done"
    /\ arguments = <<pVN, pSeven, pVLA>>
    /\ "name" \in DOMAIN Before.vals
    /\ After.vals["name"] = StrV(<<"7">>)
    /\ After.vals["all"] = BoolV(TRUE)
    /\ err = NoErr

\* C7: when the scan reaches a "--" at position k, the tokens after it are
\* appended to the literals as they are, the "--" is not a literal, no flag
\* changes because of them and nothing is captured; they are bound to the
\* positional fields and the rest field like any literal.
C7_Terminator ==
    pc = "done" =>
        /\ \A k \in 1..Len(arguments) :
            (arguments[k] = DoubleHyphen /\ Reached(ScanTo(k))) =>
                /\ After.args = ScanTo(k).f.args \o SubSeq(arguments, k + 1, Len(arguments))
                /\ After.vals = ScanTo(k).f.vals
                /\ After.unknownFlags = <<>>
                /\ err.kind \in {"nil", "Positional"}
                /\ err = NoErr =>
                    /\ After.restField.set => After.restField.val = After.args
                    /\ \A p \in DOMAIN After.posFields :
                            p < Len(After.args) =>
                                After.posFields[p].val =
                                    ValueSet(After.posFields[p].kind, After.args[p + 1]).v
        /\ (arguments = <<pVerbose, DoubleHyphen, pVLA>> /\ "list" \in DOMAIN Before.vals
                /\ Before.posFields = <<>>) =>
                /\ err = NoErr
                /\ After.vals["verbose"] = BoolV(TRUE)
                /\ After.vals["list"] = BoolV(FALSE)
                /\ Args(After) = <<pVLA>>

\* a flag token after "--" reached a positional field and the rest field
C7_Witness ==
    /\ pc = "done"
    /\ arguments = <<pVerbose, DoubleHyphen, pSeven>>
    /\ "verbose" \in DOMAIN Before.vals
    /\ Before.restField.set
    /\ After.vals["verbose"] = BoolV(TRUE)
    /\ After.restField = BoundSlice(<<pSeven>>)
    /\ After.posFields[0].val = IntV(7)

\* C8: a cluster the scan reaches in which, after booleans only, a registered
\* flag with a value is followed by the rune of another one makes Parse fail
\* with MissingValue whatever follows, and neither flag changes.
C8_TwoValueFlags ==
    pc = "done" =>
        /\ \A k \in 1..Len(arguments) :
            (/\ IsCluster(arguments[k])
             /\ Reached(ScanTo(k))
             /\ Lead(ScanTo(k).f, Tail(arguments[k])) + 2 <= Len(arguments[k]) - 1
             /\ Registered(Before, arguments[k][Lead(ScanTo(k).f, Tail(arguments[k])) + 2], FALSE)
             /\ Registered(Before, arguments[k][Lead(ScanTo(k).f, Tail(arguments[k])) + 3], FALSE))
            => /\ err = FlagErr("MissingValue",
                                <<"-", arguments[k][Lead(ScanTo(k).f, Tail(arguments[k])) + 2]>>)
               /\ \A r \in {arguments[k][Lead(ScanTo(k).f, Tail(arguments[k])) + 2],
                            arguments[k][Lead(ScanTo(k).f, Tail(arguments[k])) + 3]} :
                    After.vals[Before.shortMap[r]] = ScanTo(k).f.vals[Before.shortMap[r]]
        /\ (arguments # <<>> /\ Head(arguments) = pNC /\ "count" \in DOMAIN Before.vals) =>
                /\ err = FlagErr("MissingValue", <<"-", "n">>)
                /\ After.vals["name"] = FlagObjects["name"].def
                /\ After.vals["count"] = FlagObjects["count"].def

\* "-nc" followed by a value failed
C8_Witness ==
    /\ pc = "done"
    /\ arguments = <<pNC, tX>>
    /\ "count" \in DOMAIN Before.vals
    /\ err.kind = "MissingValue"

\* tok is a flag token that f does not recognize: a long flag that is not
\* registered, or a cluster whose scan comes to a rune that is not registered
Unrecognized(f, tok) ==
    \/ /\ HasPrefix(tok, DoubleHyphen)
       /\ tok # DoubleHyphen
       /\ \A n \in DOMAIN f.flags :
            /\ tok # DoubleHyphen \o n
            /\ ~HasPrefix(tok, DoubleHyphen \o n \o <<"=">>)
    \/ /\ IsCluster(tok)
       /\ Lead(f, Tail(tok)) < Len(tok) - 1
       /\ tok[Lead(f, Tail(tok)) + 2] \notin DOMAIN f.shortMap

\* the flags a captured token set before the capture: the booleans a cluster
\* begins with
BeforeCapture(f, tok) ==
    IF IsCluster(tok) THEN WithBools(f, Tail(tok), Lead(f, Tail(tok))) ELSE f

\* the literals that cannot be converted to the positional field declared for
\* their position
Unconvertible(f, literals) ==
    {p \in DOMAIN f.posFields :
        p < Len(literals) /\ ~ValueSet(f.posFields[p].kind, literals[p + 1]).ok}

\* The capture of the rest of the arguments from the first unrecognized flag
\* token, at position k; silent says that Parse returns no error.
Captures(k, silent) ==
    /\ After.unknownFlags = SubSeq(arguments, k, Len(arguments))
    /\ After.args = ScanTo(k).f.args
    /\ After.vals = BeforeCapture(ScanTo(k).f, arguments[k]).vals
    /\ IF silent THEN err = NoErr
       ELSE /\ err.kind \in {"nil", "Positional"}
            /\ err = NoErr <=> Unconvertible(Before, After.args) = {}

Capturing(silent) ==
    (pc = "done" /\ Before.allowUnknownFlags) =>
        /\ \A k \in 1..Len(arguments) :
            (Reached(ScanTo(k)) /\ Unrecognized(Before, arguments[k])) => Captures(k, silent)
        /\ (arguments = <<pVerbose, pUnknown, tX>> /\ "verbose" \in DOMAIN Before.vals) =>
                /\ After.vals["verbose"] = BoolV(TRUE)
                /\ UnknownFlags(After) = <<pUnknown, tX>>
                /\ Args(After) = <<>>
                /\ err = NoErr

\* C9 as stated: with capture enabled, at the first unrecognized flag token the
\* scan reaches, at position k, Parse returns no error, the unknown list is
\* the arguments from k on, nothing after k is parsed or becomes a literal.
C9_CaptureAsStated == Capturing(TRUE)

\* C9 as amended: the same, but Parse returns the error of a positional field
\* when a literal before k cannot be converted to it, and no error otherwise.
C9_Capture == Capturing(FALSE)

\* the capture began at a cluster and took a "--" and a known flag with it
C9_Witness ==
    /\ pc = "done"
    /\ Before.allowUnknownFlags
    /\ DOMAIN Before.vals = {"verbose"}
    /\ arguments = <<pVLA, DoubleHyphen, pVerbose>>
    /\ UnknownFlags(After) = arguments
    /\ err = NoErr

\* the scan of all the recorded arguments
ScanAll == ScanTo(Len(arguments) + 1)

\* C10 as stated: after a scan without error, for every declared position p
\* whose literal cannot be converted, Parse fails reporting p and the field
\* keeps its value.
C10_PositionAsStated ==
    (pc = "done" /\ ScanAll.err = NoErr) =>
        \A p \in Unconvertible(Before, ScanAll.f.args) :
            /\ err = PosErr(p)
            /\ After.posFields[p].val = Before.posFields[p].val

\* C10 as amended: after a scan without error, when some literal cannot be
\* converted to the field of its position, Parse fails reporting the position
\* of one such literal, and every such field keeps its value; otherwise Parse
\* returns no error.
C10_Position ==
    (pc = "done" /\ ScanAll.err = NoErr) =>
        /\ Unconvertible(Before, ScanAll.f.args) # {} =>
                err \in {PosErr(p) : p \in Unconvertible(Before, ScanAll.f.args)}
        /\ Unconvertible(Before, ScanAll.f.args) = {} => err = NoErr
        /\ \A p \in Unconvertible(Before, ScanAll.f.args) :
                After.posFields[p].val = Before.posFields[p].val

\* of two literals that cannot be converted, the second was reported
C10_Witness ==
    /\ pc = "done"
    /\ arguments = <<tX, pVerbose, tX>>
    /\ "verbose" \in DOMAIN Before.vals
    /\ err = PosErr(1)
    /\ After.posFields[0].val = Before.posFields[0].val

\* the position of the first "--" of args, or one past their end
FirstHyphen(args) ==
    CHOOSE d \in 1..(Len(args) + 1) :
        /\ d <= Len(args) => args[d] = DoubleHyphen
        /\ \A j \in 1..(d - 1) : args[j] # DoubleHyphen

\* the literals of args when every flag token before the "--" is a nullary
\* flag: the tokens before the "--" that do not look like flags, then all the
\* tokens after it
Literals(args) ==
    SelectSeq(SubSeq(args, 1, FirstHyphen(args) - 1), LAMBDA a : ~HasPrefix(a, <<"-">>))
        \o SubSeq(args, FirstHyphen(args) + 1, Len(args))

\* the value a literal of the programs stands for in a field of the kind
LiteralValue(kind, tok) == IF kind = "string" THEN StrV(tok) ELSE IntV(7)

\* C11: after a successful Parse every positional field declared at a
\* position p below the number of literals holds the conversion of the
\* literal at p and every other one keeps its value, with a gap in the
\* declared positions and with flags between the literals.
C11_PositionalBinding ==
    (pc = "done" /\ err = NoErr) =>
        /\ Args(After) = Literals(arguments)
        /\ DOMAIN After.posFields = DOMAIN Before.posFields
        /\ \A p \in DOMAIN Before.posFields :
            IF p < Len(Literals(arguments))
            THEN After.posFields[p].val =
                    LiteralValue(Before.posFields[p].kind, Literals(arguments)[p + 1])
            ELSE After.posFields[p].val = Before.posFields[p].val

\* a flag stood between the literals of positions 0 and 2, position 1 not declared
C11_Witness ==
    /\ pc = "done"
    /\ err = NoErr
    /\ DOMAIN Before.posFields = {0, 2}
    /\ arguments = <<tX, tV, tX, pSeven>>
    /\ After.posFields[0].val = StrV(<<"x">>)
    /\ After.posFields[2].val = IntV(7)

\* every token of the recorded arguments is a nullary flag, a "--" or a word
NullaryOnly == \A i \in 1..Len(arguments) : arguments[i] \in {pVLA, pVerbose, DoubleHyphen, tX, pSeven}

\* C12: after a successful Parse on a FlagSet with a rest field, the rest
\* field holds all the literals, those bound to positional fields and those
\* after "--" included.
C12_RestIsAllLiterals ==
    (pc = "done" /\ err = NoErr /\ Before.restField.set) =>
        /\ After.restField = BoundSlice(Args(After))
        /\ (NullaryOnly /\ UnknownFlags(After) = <<>>) =>
                After.restField.val = Literals(arguments)
        /\ arguments = <<pSeven, DoubleHyphen, pSeven>> =>
                After.restField.val = <<pSeven, pSeven>>

\* the literal before "--" and the one after it went to the positional fields
\* and to the rest field
C12_Witness ==
    /\ pc = "done"
    /\ err = NoErr
    /\ Before.restField.set
    /\ arguments = <<pSeven, DoubleHyphen, pSeven>>
    /\ After.posFields[0].val = IntV(7)
    /\ After.posFields[1].val = IntV(7)
    /\ After.restField.val = <<pSeven, pSeven>>

\* the token names the flag id, by its long name or by its character in a cluster
Mentions(id, tok) ==
    /\ HasPrefix(tok, <<"-">>)
    /\ \/ HasPrefix(tok, <<"-", "-">> \o FlagObjects[id].Name)
       \/ /\ ~HasPrefix(tok, <<"-", "-">>)
          /\ \E i \in 2..Len(tok) : tok[i] = FlagObjects[id].Short

\* the vectors of ReparseInputs whose Parse sets the verbose flag: in the
\* others its token follows "--" or an unregistered flag
VerboseSetters == {<<pVerbose>>, <<pVerbose, tX>>, <<pVLA>>}

\* C13: each Parse call on a FlagSet starts with args and unknownFlags
\* emptied, so both reflect the latest call only, while flag values are kept
\* from call to call: a flag holds the value of the latest call that set it,
\* or its default if no call did.
C13_Reparse ==
    (pc = "parsed") =>
        /\ \A i \in 1..Len(After.args) : \E j \in 1..Len(arguments) : arguments[j] = After.args[i]
        /\ \A i \in 1..Len(After.unknownFlags) : \E j \in 1..Len(arguments) : arguments[j] = After.unknownFlags[i]
        /\ (err = NoErr /\ NullaryOnly /\ After.unknownFlags = <<>>) => Args(After) = Literals(arguments)
        /\ DOMAIN After.vals = DOMAIN Before.vals
        /\ \A id \in DOMAIN Before.vals :
                (\A j \in 1..Len(arguments) : ~Mentions(id, arguments[j])) =>
                    After.vals[id] = Before.vals[id]
        /\ "verbose" \in DOMAIN After.vals =>
                After.vals["verbose"] =
                    BoolV(\E j \in 1..Len(given) : given[j] \in VerboseSetters)
        /\ "name" \in DOMAIN After.vals =>
                After.vals["name"] =
                    IF \E j \in 1..Len(given) : given[j] = <<pNV>> THEN StrV(<<"v">>) ELSE StrV(<<"d">>)

\* the second call replaced the literal of the first and kept its flag value
C13_Witness ==
    /\ pc = "parsed"
    /\ given = << <<pVerbose, tX>>, <<pSeven, DoubleHyphen, pVLA>> >>
    /\ "verbose" \in DOMAIN Before.vals
    /\ Before.args = <<tX>>
    /\ After.args = <<pSeven, pVLA>>
    /\ After.vals["verbose"] = BoolV(TRUE)

\* the scan of the first k recorded tokens fails, and the token after them,
\* which a flag may take as its value, does not help
ScanFailsAt(k) ==
    /\ ScanTo(k + 1).err # NoErr
    /\ k < Len(arguments) => ScanTo(k + 2).err # NoErr

RECURSIVE FirstFailure(_)

\* the first index from k on at which the scan fails
FirstFailure(k) == IF k >= Len(arguments) \/ ScanFailsAt(k) THEN k ELSE FirstFailure(k + 1)

\* the index of the token the flag scan of the recorded call failed on
FailIndex == FirstFailure(1)

ScanErrors == {"UnknownFlag", "MissingValue", "InvalidValue"}

\* a positional field holds its value from before the call or the conversion
\* of the literal at its position
BoundOrKept(p) ==
    \/ After.posFields[p] = Before.posFields[p]
    \/ /\ p < Len(After.args)
       /\ ValueSet(Before.posFields[p].kind, After.args[p + 1]).ok
       /\ After.posFields[p].val = ValueSet(Before.posFields[p].kind, After.args[p + 1]).v

\* C14 as stated, for every failure of Parse: the FlagSet is the one the
\* tokens up to the failing one produce, no later token having any effect.
\* The failing token of a positional failure is a token equal to the literal
\* at the reported position.
C14_AbortAsStated ==
    (pc = "done" /\ err # NoErr) =>
        \E k \in 1..Len(arguments) :
            /\ IF err.kind \in ScanErrors THEN k = FailIndex ELSE arguments[k] = After.args[err.pos + 1]
            /\ LET s == ScanTo(k + 1)
               IN  After.vals = s.f.vals /\ After.unknownFlags = s.f.unknownFlags
            /\ After.restField = Before.restField
            /\ \A p \in DOMAIN Before.posFields : p # err.pos => After.posFields[p] = Before.posFields[p]

\* C14: a failure of the flag scan aborts Parse at the failing token: the
\* flag values are those the tokens up to the failing one produced, the ones
\* set before it being kept, no later token has any effect, and no positional
\* field, rest field or unknown field is written. A failure of a positional
\* conversion comes after the scan of the whole vector: every flag token has
\* had its effect, the failing field and the rest field are not written, and
\* each other positional field is bound or not as the map was ranged.
C14_Abort ==
    /\ (pc = "done" /\ err.kind \in ScanErrors) =>
            /\ LET k == FailIndex
                   s == ScanTo(k + 1)
                   b == ScanTo(k)
               IN  /\ s.err # NoErr
                   /\ After.vals = s.f.vals
                   /\ After.unknownFlags = s.f.unknownFlags
                   /\ After.args = s.f.args
                   /\ \A id \in DOMAIN Before.vals :
                        ~Mentions(id, arguments[k]) => After.vals[id] = b.f.vals[id]
            /\ After.posFields = Before.posFields
            /\ After.restField = Before.restField
            /\ After.unknownField = Before.unknownField
    /\ (pc = "done" /\ err.kind = "Positional") =>
            /\ LET s == ScanAll
               IN  /\ s.err = NoErr
                   /\ After.vals = s.f.vals
                   /\ After.args = s.f.args
                   /\ After.unknownFlags = s.f.unknownFlags
            /\ After.posFields[err.pos] = Before.posFields[err.pos]
            /\ \A p \in DOMAIN Before.posFields : BoundOrKept(p)
            /\ After.restField = Before.restField
            /\ After.unknownField = Before.unknownField

\* the scan failed on the second token: the flag of the first is set, the one
\* of the third is not
C14_Witness ==
    /\ pc = "done"
    /\ arguments = <<pVerbose, pUnknown, pVLA>>
    /\ err = FlagErr("UnknownFlag", pUnknown)
    /\ DOMAIN Before.vals = {"verbose", "list"}
    /\ After.vals["verbose"] = BoolV(TRUE)
    /\ After.vals["list"] = BoolV(FALSE)

\* the error a flag has when it is given the text value, if any
Rejected(id, value, d) ==
    IF ValueSet(FlagObjects[id].kind, value).ok THEN NoErr ELSE FlagErr("InvalidValue", d)

\* the error of a flag that needs a value and has none attached, at token k
NeedsNext(id, k, d) ==
    IF k = Len(arguments) THEN FlagErr("MissingValue", d) ELSE Rejected(id, arguments[k + 1], d)

\* the error the flag d has when f does not register it
NotRegistered(f, d) == IF f.allowUnknownFlags THEN NoErr ELSE FlagErr("UnknownFlag", d)

\* the error of the long flag token tok at position k, its name nm ending at
\* the first "=" at position eq of the token (0 when it has none)
LongFails(f, tok, k, eq, nm) ==
    IF nm \notin DOMAIN f.flags THEN NotRegistered(f, DoubleHyphen \o nm)
    ELSE IF eq > 0 THEN Rejected(f.flags[nm], SubSeq(tok, eq + 1, Len(tok)), DoubleHyphen \o nm)
    ELSE IF FlagIsBool(f.flags[nm]) THEN NoErr
    ELSE NeedsNext(f.flags[nm], k, DoubleHyphen \o nm)

\* the error of the cluster runes at position k, m leading runes of it being
\* registered boolean flags
ClusterFails(f, runes, k, m) ==
    IF m = Len(runes) THEN NoErr
    ELSE IF runes[m + 1] \notin DOMAIN f.shortMap THEN NotRegistered(f, <<"-", runes[m + 1]>>)
    ELSE IF m + 1 = Len(runes) THEN NeedsNext(f.shortMap[runes[m + 1]], k, <<"-", runes[m + 1]>>)
    ELSE IF Registered(f, runes[m + 2], FALSE) THEN FlagErr("MissingValue", <<"-", runes[m + 1]>>)
    ELSE Rejected(f.shortMap[runes[m + 1]], SubSeq(runes, m + 2, Len(runes)), <<"-", runes[m + 1]>>)

\* the error of the flag token at position k of the recorded arguments
TokenFails(f, k) ==
    IF IsCluster(arguments[k])
    THEN ClusterFails(f, Tail(arguments[k]), k, Lead(f, Tail(arguments[k])))
    ELSE LongFails(f, arguments[k], k, IndexByte(arguments[k], "="),
                   SubSeq(arguments[k], 3,
                          IF IndexByte(arguments[k], "=") = 0 THEN Len(arguments[k])
                          ELSE IndexByte(arguments[k], "=") - 1))

\* the scan reaches the flag token at position k
ReachesFlag(k) ==
    /\ HasPrefix(arguments[k], <<"-">>)
    /\ Len(arguments[k]) > 1
    /\ arguments[k] # DoubleHyphen
    /\ Reached(ScanTo(k))

-----------------------------------------------------------------------------
(* Properties of the registry of the Dispatcher                            *)

\* the words of the paths of RegistryPaths, and their form joined by single spaces
WordsOf(path) == IF path = pFoo THEN <<tFoo>> ELSE <<tFoo, tBar>>
JoinedForm(path) == IF path = pFoo THEN <<"f", "o", "o">> ELSE <<"f", "o", "o", " ", "b", "a", "r">>

\* the calls made so far for a path of the words w, and the latest of them
CallsFor(w) == {i \in 1..Len(given) : WordsOf(given[i].path) = w}
LatestFor(w) == CHOOSE i \in CallsFor(w) : \A j \in CallsFor(w) : j <= i

\* the latest call for the words of path was a Dispatch
Dispatched(path) == CallsFor(WordsOf(path)) # {} /\ given[LatestFor(WordsOf(path))].op = "Dispatch"

\* Execute was called with the words of path and found the entry of that path
ResolvedTo(path) ==
    /\ resolved # <<>>
    /\ resolved[1].found
    /\ resolved[1].path = JoinedForm(path)

\* C16: a command registered under one spelling of a path is found under any
\* other spelling of it by HasCommand, GetCommand, GetCommandEntry and by
\* Execute, and its entry holds the path joined by single spaces.
C16_Spelling ==
    \A p, q \in RegistryPaths :
        (/\ WordsOf(p) = WordsOf(q)
         /\ Dispatched(p)
         /\ given[LatestFor(WordsOf(p))].path = p) =>
            /\ HasCommand(commands, q)
            /\ GetCommand(commands, q) = given[LatestFor(WordsOf(p))].cmd
            /\ GetCommandEntry(commands, q) =
                    [Path |-> JoinedForm(p), Command |-> given[LatestFor(WordsOf(p))].cmd]
            /\ (pc = "done" /\ arguments = WordsOf(q)) =>
                    /\ ResolvedTo(q)
                    /\ ran = <<RunCall(given[LatestFor(WordsOf(p))].cmd, <<>>)>>

\* registered with spaces around the words, found and run by the words
C16_Witness ==
    /\ pc = "done"
    /\ given = <<Called("Dispatch", pFooBarWide, "cBaz")>>
    /\ arguments = <<tFoo, tBar>>
    /\ HasCommand(commands, pFooBar)
    /\ GetCommandEntry(commands, pFooBar).Path = pFooBar
    /\ ran = <<RunCall("cBaz", <<>>)>>

\* C17: after any Dispatch and Remove calls a path is registered, for
\* HasCommand, GetCommand, GetCommands and Execute alike, exactly when the
\* latest call for it was a Dispatch, and its command is the one of that
\* Dispatch; after a Remove, Execute with the words of the path and no
\* registered shorter prefix returns the unknown command error.
C17_LatestCallWins ==
    \A q \in RegistryPaths :
        /\ HasCommand(commands, q) <=> Dispatched(q)
        /\ (GetCommand(commands, q) # NilCommand) <=> Dispatched(q)
        /\ (JoinedForm(q) \in DOMAIN GetCommands(commands)) <=> Dispatched(q)
        /\ DOMAIN GetCommands(commands) \subseteq {JoinedForm(r) : r \in RegistryPaths}
        /\ (pc = "done" /\ arguments = WordsOf(q)) => (ResolvedTo(q) <=> Dispatched(q))
        /\ Dispatched(q) =>
                /\ GetCommand(commands, q) = given[LatestFor(WordsOf(q))].cmd
                /\ GetCommands(commands)[JoinedForm(q)] = given[LatestFor(WordsOf(q))].cmd
                /\ (pc = "done" /\ arguments = WordsOf(q)) =>
                        ran = <<RunCall(given[LatestFor(WordsOf(q))].cmd, <<>>)>>
        /\ (/\ pc = "done"
            /\ arguments = WordsOf(q)
            /\ ~Dispatched(q)
            /\ \A r \in RegistryPaths : Len(WordsOf(r)) < Len(WordsOf(q)) => ~Dispatched(r)) =>
                /\ err = UnknownCommand(arguments)
                /\ err.tok = JoinedForm(q)
                /\ ran = <<>>

\* a command replaced under another spelling and then removed under the first
C17_Witness ==
    /\ pc = "done"
    /\ given = <<Called("Dispatch", pFooBar, "cBar"), Called("Dispatch", pFooBarWide, "cBaz"),
                 Called("Remove", pFooBar, NilCommand)>>
    /\ arguments = <<tFoo, tBar>>
    /\ ~HasCommand(commands, pFooBarWide)
    /\ err.kind = "unknown command"
    /\ ran = <<>>

RECURSIVE IsSubsequence(_, _)

\* the elements of a occur in b in the same order
IsSubsequence(a, b) ==
    IF a = <<>> THEN TRUE
    ELSE IF b = <<>> THEN FALSE
    ELSE IF Head(a) = Head(b) THEN IsSubsequence(Tail(a), Tail(b))
    ELSE IsSubsequence(a, Tail(b))

\* C18: when Execute has found a command and no help is asked for, it parses
\* the arguments the resolver returned with the FlagSet of the command: if
\* Parse fails, Execute returns that error wrapped as "error parsing flags"
\* and Run is not called; if it succeeds, Run is called once, with the
\* FlagSet as parsed and with its Args(), which are in the order given.
C18_ParseThenRun ==
    (pc = "done" /\ resolved # <<>> /\ resolved[1].found /\ ~HasHelp(arguments)) =>
        LET cmd == commands[resolved[1].path].Command
            p == Parse(pre[cmd], resolved[1].args, <<>>)
        IN  /\ fsets = [pre EXCEPT ![cmd] = p.f]
            /\ IF p.err # NoErr
               THEN /\ err = [kind |-> p.err.kind, tok |-> p.err.tok, pos |-> p.err.pos,
                              ctx |-> "error parsing flags"]
                    /\ ran = <<>>
               ELSE /\ err = NoErr
                    /\ ran = <<RunCall(cmd, fsets[cmd].args)>>
                    /\ IsSubsequence(fsets[cmd].args, arguments)
            /\ (arguments = <<tFoo, tX, tV, tBaz>> /\ cmd = "cFoo") =>
                    ran = <<RunCall("cFoo", <<tX, tBaz>>)>>
            /\ (arguments = <<tFoo, tBar, tC>> /\ cmd = "cBar") =>
                    /\ ran = <<>>
                    /\ err.kind = "MissingValue"
                    /\ err.ctx = "error parsing flags"

\* the flag of the command found lacks its value: the error of Parse is
\* returned wrapped and the command is not run
C18_Witness ==
    /\ pc = "done"
    /\ arguments = <<tFoo, tBar, tC>>
    /\ resolved[1].found
    /\ commands[resolved[1].path].Command = "cBar"
    /\ err = [kind |-> "MissingValue", tok |-> tC, pos |-> 0 - 1, ctx |-> "error parsing flags"]
    /\ ran = <<>>

-----------------------------------------------------------------------------
(* Properties of the validation of the resolver                            *)

\* the flag id registered in f, by long name or by short character alone,
\* answers to the skipped item fi and is not boolean when fi has a value
Resolves(f, fi, id) ==
    /\ id \in DOMAIN f.vals
    /\ \/ FlagObjects[id].Name # <<>> /\ fi.flag = DoubleHyphen \o FlagObjects[id].Name
       \/ FlagObjects[id].Name # <<>> /\ fi.flag = <<"-">> \o FlagObjects[id].Name
       \/ fi.flag = <<"-", FlagObjects[id].Short>>
       \/ fi.flag = <<"-", "-", FlagObjects[id].Short>>
    /\ ~(fi.hasValue /\ FlagIsBool(id))

\* the validation as stated: every skipped item at or before the boundary is
\* a help flag or resolves to a flag of the FlagSet
AcceptedAsStated(f, skippedItems, lastCommandIndex) ==
    \A k \in 1..Len(skippedItems) :
        skippedItems[k].index <= lastCommandIndex =>
            \/ skippedItems[k].flag \in {tH, tHelpFlag}
            \/ \E id \in DOMAIN f.vals : Resolves(f, skippedItems[k], id)

\* C19 as stated: the resolver returns the longest registered prefix of the
\* command parts all of whose skipped items at or before the boundary are
\* help flags or resolve, by long name or short character, to a flag of the
\* command's FlagSet, one registered with a short character only included,
\* that is not boolean when the item has a value.
C19_ValidationAsStated ==
    (pc = "done" /\ resolved # <<>>) =>
        LET sc == ScanOf
            V == {j \in 1..Len(sc.commandParts) :
                    /\ PrefixPath(sc, j) \in DOMAIN commands
                    /\ AcceptedAsStated(pre[commands[PrefixPath(sc, j)].Command], sc.skippedItems,
                                        sc.commandPartIndices[j])}
        IN  IF V = {} THEN ~resolved[1].found
            ELSE resolved[1].found /\ resolved[1].path = PrefixPath(sc, Longest(V))

\* the same for the command lines without the flag that has no long name
C19_ValidationOfNamedFlags ==
    (\A i \in 1..Len(arguments) : arguments[i] # tXFlag) => C19_ValidationAsStated

\* the command is not found with its short-only flag before its word, and is
\* found and run with the flag after it
C19_ShortOnlyRejected ==
    /\ pc = "done"
    /\ pFoo \in DOMAIN commands
    /\ arguments = <<tXFlag, tFoo>>
    /\ err = UnknownCommand(arguments)
    /\ ran = <<>>

-----------------------------------------------------------------------------
(* Properties of the resolver                                              *)

\* C20: a call of the resolver changes neither the registry nor any FlagSet
\* nor its arguments, and what it returns is determined by the registry and
\* the tokens alone: it is what the resolver returns for them before any
\* FlagSet was parsed, whatever Execute, Dispatch and Remove calls came before.
C20_Pure ==
    /\ [][ResolveCall => (commands' = commands /\ fsets' = fsets /\ given' = <<commands>>)]_vars
    /\ [](given # <<>> =>
            /\ fsets = pre
            /\ resolved = <<findCommandWithInterspersedFlags(given[1], CommandFlagSets, arguments)>>)

\* the resolver validated a flag against a FlagSet that an Execute call had
\* parsed and changed before
C20_Witness ==
    /\ given # <<>>
    /\ arguments = <<tV, tFoo>>
    /\ fsets.cFoo.parsed
    /\ fsets.cFoo.vals["verbose"] = BoolV(TRUE)
    /\ resolved = <<Found(pFoo, <<tV>>)>>

-----------------------------------------------------------------------------
(* Properties of the classification and of the rebuilt arguments           *)

FlagLooking(tok) == tok # <<>> /\ tok[1] = "-"

\* the words the classification sc took for command parts before position i,
\* then the token t, joined by single spaces
WordsWith(sc, i, t) ==
    Join(SelectSeq([k \in 1..Len(sc.commandParts) |->
                        IF sc.commandPartIndices[k] < i THEN sc.commandParts[k] ELSE <<>>],
                   LAMBDA w : w # <<>>) \o <<t>>,
         <<" ">>)

\* some registered path begins with the characters of s
BeginsRegistered(s) ==
    \E path \in DOMAIN commands : Len(s) <= Len(path) /\ \A c \in 1..Len(s) : path[c] = s[c]

\* the positions of the command parts, of the skipped flags, and of the
\* tokens recorded as values
PartPositions(sc) == {sc.commandPartIndices[k] : k \in 1..Len(sc.commandPartIndices)}
FlagPositions(sc) == {sc.skippedItems[k].index : k \in 1..Len(sc.skippedItems)}
ValuePositions(sc) ==
    {sc.skippedItems[k].index + 1 : k \in {n \in 1..Len(sc.skippedItems) : sc.skippedItems[n].hasValue}}

\* the skipped item fi of sc is recorded as the claim says
RecordedAsStated(sc, fi) ==
    /\ FlagLooking(arguments[fi.index])
    /\ fi.flag = arguments[fi.index]
    /\ IF fi.index = Len(arguments) \/ FlagLooking(arguments[fi.index + 1])
       THEN ~fi.hasValue
       ELSE IF BeginsRegistered(WordsWith(sc, fi.index, arguments[fi.index + 1]))
       THEN ~fi.hasValue /\ fi.index + 1 \in PartPositions(sc)
       ELSE fi.hasValue /\ fi.value = arguments[fi.index + 1] /\ fi.index + 1 \notin PartPositions(sc)

\* C21: in the classification of the resolver every token is a command part,
\* a skipped flag or the value of the skipped flag before it; the token t
\* after a flag is a command part, the flag having no value, exactly when the
\* command parts so far with t begin a registered path, and is the value of
\* the flag otherwise; a flag at the end or before another flag has no value.
C21_Classification ==
    (pc = "done" /\ resolved # <<>>) =>
        LET sc == ScanOf
        IN  /\ PartPositions(sc) \cup FlagPositions(sc) \cup ValuePositions(sc) = 1..Len(arguments)
            /\ PartPositions(sc) \cap (FlagPositions(sc) \cup ValuePositions(sc)) = {}
            /\ FlagPositions(sc) \cap ValuePositions(sc) = {}
            /\ Len(sc.commandParts) = Len(sc.commandPartIndices)
            /\ \A k \in 1..Len(sc.commandParts) :
                    /\ sc.commandParts[k] = arguments[sc.commandPartIndices[k]]
                    /\ ~FlagLooking(sc.commandParts[k])
                    /\ k > 1 => sc.commandPartIndices[k - 1] < sc.commandPartIndices[k]
            /\ \A k \in 1..Len(sc.skippedItems) : RecordedAsStated(sc, sc.skippedItems[k])
            /\ resolved[1].found =>
                    \E j \in 1..Len(sc.commandParts) :
                        resolved[1].path = Join(SubSeq(sc.commandParts, 1, j), <<" ">>)

\* a flag before a command word has no value, one before another word has it
C21_Witness ==
    /\ pc = "done"
    /\ DOMAIN commands = {pFoo}
    /\ arguments = <<tV, tFoo, tC, tX>>
    /\ ScanOf.commandParts = <<tFoo>>
    /\ ScanOf.skippedItems = <<flagInfo(tV, <<>>, FALSE, 1), flagInfo(tC, tX, TRUE, 3)>>
    /\ resolved = <<Found(pFoo, <<tV, tC, tX>>)>>

\* the tokens of args at the positions of P, in their order
TokensAt(args, P) ==
    LET idx == SelectSeq([i \in 1..Len(args) |-> i], LAMBDA i : i \in P)
    IN  [k \in 1..Len(idx) |-> args[idx[k]]]

\* the number of command parts of sc that spell the path
PartsOf(sc, path) ==
    CHOOSE j \in 1..Len(sc.commandParts) : Join(SubSeq(sc.commandParts, 1, j), <<" ">>) = path

\* C22: the arguments the resolver returns for a prefix whose last command
\* word is at position b are the skipped flags at or before b in their order,
\* each followed by its value if it has one, then every token after b: the
\* command line without the matched command words, the order of the other
\* tokens kept.
C22_Reassembled ==
    (pc = "done" /\ resolved # <<>> /\ resolved[1].found) =>
        LET sc == ScanOf
            j == PartsOf(sc, resolved[1].path)
            b == sc.commandPartIndices[j]
        IN  /\ resolved[1].args =
                    TokensAt(arguments, {i \in 1..b : i \in FlagPositions(sc) \cup ValuePositions(sc)})
                        \o SubSeq(arguments, b + 1, Len(arguments))
            /\ resolved[1].args =
                    TokensAt(arguments, (1..Len(arguments)) \ {sc.commandPartIndices[k] : k \in 1..j})
            /\ Len(resolved[1].args) = Len(arguments) - j

\* a flag before the command words and a token after them, the words removed
C22_Witness ==
    /\ pc = "done"
    /\ arguments = <<tV, tFoo, tBar, tX>>
    /\ resolved = <<Found(pFooBar, <<tV, tX>>)>>

-----------------------------------------------------------------------------
(* Properties of the values of flags                                       *)

NoFlag == "none"

\* the flag of f that the token tok names without a value attached: a long
\* flag with a value written without "=", or the last rune of a cluster whose
\* other runes are boolean flags; NoFlag if there is none
ValueFlagOf(f, tok) ==
    IF IsCluster(tok)
    THEN IF Lead(f, Tail(tok)) = Len(tok) - 2 /\ Registered(f, tok[Len(tok)], FALSE)
         THEN f.shortMap[tok[Len(tok)]]
         ELSE NoFlag
    ELSE IF SubSeq(tok, 3, Len(tok)) \in DOMAIN f.flags /\ ~FlagIsBool(f.flags[SubSeq(tok, 3, Len(tok))])
    THEN f.flags[SubSeq(tok, 3, Len(tok))]
    ELSE NoFlag

\* the boolean long flag of f the token tok names, NoFlag if there is none
NullaryFlagOf(f, tok) ==
    IF /\ ~IsCluster(tok)
       /\ SubSeq(tok, 3, Len(tok)) \in DOMAIN f.flags
       /\ FlagIsBool(f.flags[SubSeq(tok, 3, Len(tok))])
    THEN f.flags[SubSeq(tok, 3, Len(tok))]
    ELSE NoFlag

\* f after the boolean runes before the last one of the cluster tok
WithLead(f, tok) == IF IsCluster(tok) THEN WithBools(f, Tail(tok), Len(tok) - 2) ELSE f

\* the flag id named at position k takes the token after it for its value,
\* whatever it looks like, and the scan goes on after that token
ConsumesNext(f, k, id) ==
    LET c == ValueSet(FlagObjects[id].kind, arguments[k + 1])
    IN  IF c.ok THEN GoesOn([WithLead(f, arguments[k]) EXCEPT !.vals[id] = c.v], k + 2)
        ELSE err.kind = "InvalidValue" /\ After.args = f.args

\* C23: a flag with a value that is written without one, as a long flag
\* without "=" or as the last rune of a cluster, takes the next token for its
\* value whether or not it begins with "-" or is "--", and the scan goes on
\* after that token, which is neither read as a flag nor added to the
\* literals; a boolean flag leaves the next token to the scan.
C23_ConsumesNext ==
    (pc = "done") =>
        /\ \A k \in 1..Len(arguments) :
                ReachesFlag(k) =>
                    LET f == ScanTo(k).f
                    IN  /\ (k < Len(arguments) /\ ValueFlagOf(f, arguments[k]) # NoFlag) =>
                                ConsumesNext(f, k, ValueFlagOf(f, arguments[k]))
                        /\ NullaryFlagOf(f, arguments[k]) # NoFlag =>
                                GoesOn([f EXCEPT !.vals[NullaryFlagOf(f, arguments[k])] = BoolV(TRUE)],
                                       k + 1)
        /\ (arguments = <<sName, pVerbose>> /\ "name" \in DOMAIN Before.vals) =>
                /\ err = NoErr
                /\ After.vals["name"] = StrV(pVerbose)
                /\ After.vals["verbose"] = BoolV(FALSE)
                /\ Args(After) = <<>>
        /\ (arguments = <<pVN, DoubleHyphen>> /\ "name" \in DOMAIN Before.vals) =>
                /\ err = NoErr
                /\ After.vals["name"] = StrV(DoubleHyphen)
                /\ After.vals["verbose"] = BoolV(TRUE)
                /\ Args(After) = <<>>
        /\ (arguments = <<pVerbose, tX>> /\ "verbose" \in DOMAIN Before.vals) =>
                /\ After.vals["verbose"] = BoolV(TRUE)
                /\ Args(After) = <<tX>>

\* the flag took a token that names another flag, which was not set
C23_Witness ==
    /\ pc = "done"
    /\ arguments = <<sName, pVerbose>>
    /\ "name" \in DOMAIN Before.vals
    /\ err = NoErr
    /\ After.vals["name"] = StrV(pVerbose)
    /\ After.vals["verbose"] = BoolV(FALSE)
    /\ Args(After) = <<>>

-----------------------------------------------------------------------------
(* Properties of the registration of flags                                 *)

\* the calls of the log that registered a flag under the long name name,
\* under the rune r
CallsNaming(name) == {i \in 1..Len(given) : FlagObjects[given[i]].Name = name}
CallsWithRune(r) == {i \in 1..Len(given) : FlagObjects[given[i]].Short = r}

\* the flag of the latest call of the set of calls S, NilFlag without a call
LatestOf(S) == IF S = {} THEN NilFlag ELSE given[CHOOSE i \in S : \A j \in S : j <= i]

LongNames == {FlagObjects[id].Name : id \in OverwriteFlags} \ {<<>>}
ShortRunes == {FlagObjects[id].Short : id \in OverwriteFlags}

\* the flag the token tok names, by the log of the registrations
NamedBy(tok) ==
    IF Len(tok) = 2 THEN LatestOf(CallsWithRune(tok[2]))
    ELSE LatestOf(CallsNaming(SubSeq(tok, 3, Len(tok))))

\* C24: a registration under a long name or a rune that is taken replaces the
\* flag found under it: after any registrations a long name and a rune each
\* lead to the flag of the latest registration that used it, and Parse sets
\* the value of that flag and of no other.
C24_Overwrite ==
    /\ \A name \in LongNames : Lookup(fsets.test, name) = LatestOf(CallsNaming(name))
    /\ \A r \in ShortRunes :
            /\ r \in DOMAIN fsets.test.shortMap <=> CallsWithRune(r) # {}
            /\ r \in DOMAIN fsets.test.shortMap => fsets.test.shortMap[r] = LatestOf(CallsWithRune(r))
    /\ DOMAIN fsets.test.vals = {given[i] : i \in 1..Len(given)}
    /\ (pc = "done" /\ Len(arguments) >= 1 /\ arguments[1] # tX /\ NamedBy(arguments[1]) # NilFlag) =>
            LET id == NamedBy(arguments[1])
            IN  /\ (FlagIsBool(id) /\ Len(arguments) = 1) =>
                        err = NoErr /\ After.vals = [Before.vals EXCEPT ![id] = BoolV(TRUE)]
                /\ (~FlagIsBool(id) /\ Len(arguments) = 2) =>
                        err = NoErr /\ After.vals = [Before.vals EXCEPT ![id] = StrV(arguments[2])]

\* verbose lost its long name to chatty and its rune to vee: "-v" sets vee
C24_Witness ==
    /\ pc = "done"
    /\ given = <<"verbose", "chatty", "vee">>
    /\ arguments = <<pV>>
    /\ Lookup(After, SubSeq(pVerbose, 3, Len(pVerbose))) = "chatty"
    /\ After.shortMap["v"] = "vee"
    /\ After.vals["vee"] = BoolV(TRUE)
    /\ After.vals["verbose"] = BoolV(FALSE)

-----------------------------------------------------------------------------
(* Properties of the MCPServer                                             *)

\* the step answers with one response, an error of the code code
AnswersWith(code) ==
    /\ Len(server'.output) = Len(server.output) + 1
    /\ SubSeq(server'.output, 1, Len(server.output)) = server.output
    /\ server'.output[Len(server'.output)].code = code
    /\ server'.output[Len(server'.output)].result = <<>>

\* the step calls no command: no Execute, no Parse, no Run
CallsNothing == UNCHANGED <<fsets, commands, arguments, err, pre, ran, out, outPath, resolved>>

\* an initialize request that asks for another protocol version or whose
\* params are not those of an initialize request
FailingInitialize(line) ==
    /\ line.method = "initialize"
    /\ line.params.kind = "bad" \/ line.params.protocolVersion # MCPProtocolVersion

\* the gate for the request line
GateFor(line) ==
    /\ (line.method \in GatedMethods /\ ~server.initialized) =>
            AnswersWith(NotInitialized) /\ CallsNothing /\ ~server'.initialized
    /\ FailingInitialize(line) =>
            AnswersWith(InvalidParams) /\ CallsNothing /\ server'.initialized = server.initialized
    /\ server.initialized => server'.initialized

\* C25 as stated: in any sequence of requests every request of a gated method
\* that comes before a successful initialize is answered with -32002 and runs
\* no command, a failing initialize is answered with -32602 and leaves the
\* server as it was, and an initialized server stays initialized.
C25_GateAsStated == [][\A line \in MCPLines : given' = <<line>> => GateFor(line)]_vars

\* C25: the same for the requests that name version 2.0 of JSON-RPC; a
\* request that names another version is answered with -32600 whatever its
\* method, runs no command and leaves the server as it was.
C25_Gate ==
    [][\A line \in MCPLines \ {Malformed} :
            given' = <<line>> =>
                IF line.jsonrpc = "2.0" THEN GateFor(line)
                ELSE /\ AnswersWith(InvalidRequest)
                     /\ CallsNothing
                     /\ server'.initialized = server.initialized]_vars

\* a tool call was refused, the server was initialized, and the call ran
C25_Witness ==
    /\ given = <<MCPRequest("2.0", "tools/call", ToolCallParams(pFoo, <<>>))>>
    /\ Len(server.output) = 3
    /\ server.output[1].code = NotInitialized
    /\ server.output[2].result = <<[protocolVersion |-> MCPProtocolVersion]>>
    /\ server.output[3].result = <<[isError |-> FALSE]>>
    /\ server.initialized
    /\ ran = <<RunCall("cFoo", <<>>)>>

-----------------------------------------------------------------------------
(* Properties of the order of the positional fields                        *)

\* C26: Parse is deterministic: the error it returns and the values it leaves
\* are those of every run of Parse on the same FlagSet and the same
\* arguments, whatever the order in which the positional fields are ranged.
C26_Deterministic ==
    (pc = "done") =>
        \A order \in Orders(DOMAIN Before.posFields) :
            Parsed(After, err) = Parse(Before, arguments, order)

-----------------------------------------------------------------------------
(* Properties of the captured tokens                                       *)

\* the position of the first token Parse captured
FirstCaptured == Len(arguments) - Len(UnknownFlags(After)) + 1

\* C27: with capture enabled, a token that is captured into the unknown list
\* changes the value of no flag: the values Parse leaves are those the scan
\* of the tokens before the first captured one leaves, also when the captured
\* token is a cluster whose first runes name registered flags.
C27_CapturedNotApplied ==
    (pc = "done" /\ Before.allowUnknownFlags /\ UnknownFlags(After) # <<>>) =>
        After.vals = ScanTo(FirstCaptured).f.vals

-----------------------------------------------------------------------------
(* Properties of the bound lists                                           *)

\* C28: after every Parse call, whether it returns an error or not, the list
\* bound with Rest is the list Args returns and the list bound for the
\* unknown flags is the list UnknownFlags returns.
C28_BoundListsInStep ==
    (pc = "done") =>
        /\ Before.restField.set => After.restField.val = Args(After)
        /\ Before.unknownField.set => After.unknownField.val = UnknownFlags(After)

-----------------------------------------------------------------------------
(* Properties of the forms of the flags                                    *)

\* the command line args with its words first and its flags after them
WordsFirst(args) ==
    SelectSeq(args, LAMBDA tok : ~FlagLooking(tok)) \o SelectSeq(args, FlagLooking)

\* C29: a command line whose flags carry their values in their own token
\* ("--name=value", "-nvalue") or are clusters of declared flags, and which
\* resolves and parses with its flags after the command words, resolves to
\* the same command and leaves the same values with the flags before or
\* between the command words.
C29_FormIndependent ==
    (pc = "done") =>
        LET o == Execute(commands, pre, WordsFirst(arguments), <<>>)
        IN  (o.resolved # <<>> /\ o.resolved[1].found /\ o.err = NoErr) =>
                /\ resolved # <<>>
                /\ resolved[1].found
                /\ resolved[1].path = o.resolved[1].path
                /\ err = NoErr
                /\ fsets = o.fsets
                /\ ran = o.ran

-----------------------------------------------------------------------------
(* Properties of the values after the resolution                           *)

\* the positions of args at which the scan of Parse finds the flag "-C" and
\* gives it the next token, for a command line of "-C", boolean flags and words
RECURSIVE ValueTakers(_, _)
ValueTakers(args, i) ==
    IF i > Len(args) THEN {}
    ELSE IF args[i] = tC THEN {i} \cup ValueTakers(args, i + 2)
    ELSE ValueTakers(args, i + 1)

\* the positions of the command line that the rebuilt arguments are taken from
KeptPositions ==
    (1..Len(arguments))
        \ {ScanOf.commandPartIndices[k] : k \in 1..PartsOf(ScanOf, resolved[1].path)}

\* the position in the command line of the i-th rebuilt argument
Origin(i) == CHOOSE p \in KeptPositions : Cardinality({q \in KeptPositions : q <= p}) = i

\* C30: when Execute resolves a command and its Parse succeeds, every flag
\* that Parse gives the next token as its value stood immediately before
\* that token in the command line, and is bound to it.
C30_Adjacent ==
    (pc = "done" /\ resolved # <<>> /\ resolved[1].found /\ err = NoErr /\ ran # <<>>) =>
        \A i \in ValueTakers(resolved[1].args, 1) :
            /\ i < Len(resolved[1].args)
            /\ Origin(i + 1) = Origin(i) + 1
            /\ resolved[1].args[i + 1] = arguments[Origin(i) + 1]

====
